---- MODULE Spec2Model ----
(***************************************************************************)
(* Point-of-sale server: the request handlers of the sales, purchases,     *)
(* quotations, suppliers, RMA, inventory, PC builder and auth routers, run *)
(* against the relational store one awaited statement at a time.  Every    *)
(* `await req.db...` is one atomic step of the store; the synchronous code *)
(* between two awaits runs together with the statement that follows it.    *)
(* Amounts are whole currency units.                                       *)
(***************************************************************************)
EXTENDS Integers, Sequences, FiniteSets, TLC

MaxItems == 2
MaxTime == 1

\* the request slots: two requests in flight at a time
Reqs == {1, 2}

NULL == "null"
None == <<>>
Some(x) == <<x>>
IsSome(o) == o # <<>>

Users == {"admin", "manager", "staff"}
Roles == {"admin", "manager", "staff"}
Products == {"p1", "p2"}
Customers == {"c1"}
\* the ids of customer rows, those of rows created later included
CustomerIds == {"c1", "c2", "c3"}
Serials == {"SN1"}
SerialStatuses == {"available", "sold", "rma"}

RmaStatuses == {"under_review", "approved", "repaired", "returned", "rejected"}
Suppliers == {"s1"}
\* the session cookies of two browsers
SessionIds == {"sidA", "sidB"}

VARIABLES now, users, products, serialNumbers, customers,
          sales, saleItems, payments,
          purchases, purchaseItems, quotations, quoteItems, rmas, req,
          sessions, suppliers, pcBuilds

saleT == <<sales, saleItems, payments>>
purchaseT == <<purchases, purchaseItems>>
quoteT == <<quotations, quoteItems>>
\* the session store, the suppliers table and the pcBuilds table
otherT == <<sessions, suppliers, pcBuilds>>
tables == <<users, products, serialNumbers, customers, saleT, purchaseT, quoteT, rmas,
            otherT>>
vars == <<now, tables, req>>

----------------------------------------------------------------------------
(* Requests *)

NoBody == [items |-> None]

\* rowId is the id returned by the parent insert (saleId, purchaseId,
\* quotationId); row is the result of the handler's select; sid is the
\* session the request's cookie names; message and payload are the error
\* text and the data of the JSON response
IdleReq == [kind |-> "none", pc |-> "idle", user |-> NULL, body |-> NoBody,
            status |-> 0, rowId |-> 0, i |-> 0, j |-> 0, row |-> None,
            subtotal |-> 0, totalProfit |-> 0, total |-> 0, invoiceNumber |-> 0,
            sid |-> NULL, message |-> NULL, payload |-> None]

\* res.status(code).json(...): the handler has returned
Respond(r, code) == [r EXCEPT !.pc = "done", !.status = code]

\* res.status(code).json({ error: msg })
RespondError(q, code, msg) == [Respond(q, code) EXCEPT !.message = msg]

\* req.isAuthenticated()
isAuthenticated(u) == u # NULL

\* requireAuth: 0 stands for next()
requireAuth(u) == IF isAuthenticated(u) THEN 0 ELSE 401

\* requireRole(roles): 0 stands for next()
requireRole(u, roles) ==
    IF u = NULL \/ users[u].role \notin roles THEN 403 ELSE 0

\* AnyRole stands for a route without requireRole
AnyRole == {"*"}

GuardRoleFirst(u, roles) ==
    IF roles # AnyRole /\ requireRole(u, roles) # 0 THEN requireRole(u, roles)
    ELSE IF requireAuth(u) # 0 THEN requireAuth(u)
    ELSE 0

\* the middleware chain of a route: requireAuth, then requireRole when the
\* route names roles
Guard(u, roles) ==
    IF requireAuth(u) # 0 THEN requireAuth(u)
    ELSE IF roles # AnyRole /\ requireRole(u, roles) # 0 THEN requireRole(u, roles)
    ELSE 0

ItemsMissingNoLength(items) == ~IsSome(items)

\* !items || items.length === 0
ItemsMissing(items) == ~IsSome(items) \/ Len(items[1]) = 0

\* Number(x) of a defaulted body field: `discount = 0`, `tax = 0`
NumberOr0(o) == IF IsSome(o) THEN o[1] ELSE 0

----------------------------------------------------------------------------
(* Sale creation: router.post('/') of the sales router *)

RECURSIVE SaleSubtotal(_)
SaleSubtotal(items) ==
    IF items = <<>> THEN 0
    ELSE SaleSubtotal(SubSeq(items, 1, Len(items) - 1))
         + items[Len(items)].unitPrice * items[Len(items)].quantity

RECURSIVE SaleProfitCostOnce(_)
SaleProfitCostOnce(items) ==
    IF items = <<>> THEN 0
    ELSE SaleProfitCostOnce(SubSeq(items, 1, Len(items) - 1))
         + items[Len(items)].unitPrice * items[Len(items)].quantity
         - items[Len(items)].costPrice

RECURSIVE SaleProfit(_)
SaleProfit(items) ==
    IF items = <<>> THEN 0
    ELSE SaleProfit(SubSeq(items, 1, Len(items) - 1))
         + (items[Len(items)].unitPrice - items[Len(items)].costPrice)
           * items[Len(items)].quantity

SaleTotalAddsDiscount(subtotal, discount, tax) == subtotal + discount + tax

SaleTotal(subtotal, discount, tax) == subtotal - discount + tax

SaleItemRowUnitTotal(saleId, item) ==
    [saleId |-> saleId, productId |-> item.productId,
     serialNumber |-> item.serialNumber, quantity |-> item.quantity,
     unitPrice |-> item.unitPrice, costPrice |-> item.costPrice,
     total |-> item.unitPrice,
     profit |-> item.unitPrice - item.costPrice]

\* the line-item row of saleItems
SaleItemRow(saleId, item) ==
    [saleId |-> saleId, productId |-> item.productId,
     serialNumber |-> item.serialNumber, quantity |-> item.quantity,
     unitPrice |-> item.unitPrice, costPrice |-> item.costPrice,
     total |-> item.unitPrice * item.quantity,
     profit |-> (item.unitPrice - item.costPrice) * item.quantity]

StockAfterSaleFloored(stock, quantity) ==
    IF stock - quantity < 0 THEN 0 ELSE stock - quantity

\* stock: sql`${products.stock} - ${item.quantity}`
StockAfterSale(stock, quantity) == stock - quantity

LoyaltyEarnedRounded(total) == (total + 50) \div 100

\* Math.floor(total / 100)
LoyaltyEarned(total) == total \div 100

AfterItemCustomerFirst(q) ==
    IF q.i < Len(q.body.items[1]) THEN [q EXCEPT !.pc = "insert_item", !.i = q.i + 1]
    ELSE IF q.body.customerId # NULL THEN [q EXCEPT !.pc = "update_customer"]
    ELSE IF IsSome(q.body.payments) /\ Len(q.body.payments[1]) > 0
         THEN [q EXCEPT !.pc = "insert_payment", !.j = 1]
    ELSE [q EXCEPT !.pc = "respond"]

\* where the handler continues once the statements of item i are done
AfterItem(q) ==
    IF q.i < Len(q.body.items[1]) THEN [q EXCEPT !.pc = "insert_item", !.i = q.i + 1]
    ELSE IF IsSome(q.body.payments) /\ Len(q.body.payments[1]) > 0
         THEN [q EXCEPT !.pc = "insert_payment", !.j = 1]
    ELSE IF q.body.customerId # NULL THEN [q EXCEPT !.pc = "update_customer"]
    ELSE [q EXCEPT !.pc = "respond"]

AfterPayment(q) ==
    IF q.j < Len(q.body.payments[1]) THEN [q EXCEPT !.j = q.j + 1]
    ELSE IF q.body.customerId # NULL THEN [q EXCEPT !.pc = "update_customer"]
    ELSE [q EXCEPT !.pc = "respond"]

\* guard, validation, totals and invoice number: all before the first await
StartSale(r, sessionUsers, bodies) ==
    /\ req[r].pc = "idle"
    /\ \E u \in sessionUsers, b \in bodies :
         LET q == [req[r] EXCEPT !.kind = "sale", !.user = u, !.body = b] IN
         IF Guard(u, AnyRole) # 0
           THEN /\ req' = [req EXCEPT ![r] = Respond(q, Guard(u, AnyRole))]
                /\ UNCHANGED now
         ELSE IF ItemsMissing(b.items)
           THEN /\ req' = [req EXCEPT ![r] = Respond(q, 400)]
                /\ UNCHANGED now
         ELSE \E t \in {now, now + 1} :
                /\ t <= MaxTime
                /\ now' = t
                /\ LET subtotal == SaleSubtotal(b.items[1])
                   IN req' = [req EXCEPT ![r] =
                        [q EXCEPT !.pc = "insert_sale",
                                  !.subtotal = subtotal,
                                  !.totalProfit = SaleProfit(b.items[1]),
                                  !.total = SaleTotal(subtotal, NumberOr0(b.discount),
                                                      NumberOr0(b.tax)),
                                  !.invoiceNumber = t]]
    /\ UNCHANGED tables

InvoiceNumberTakenNever(n) == FALSE

\* invoiceNumber: varchar('invoice_number').unique(): a row holds the number
InvoiceNumberTaken(n) == \E k \in 1..Len(sales) : sales[k].invoiceNumber = n

\* payments.reduce((sum, payment) => sum + Number(payment.amount), 0)
RECURSIVE SumAmounts(_)
SumAmounts(ps) ==
    IF ps = <<>> THEN 0
    ELSE SumAmounts(SubSeq(ps, 1, Len(ps) - 1)) + ps[Len(ps)].amount

\* the payments of the request, summed as the sales page sums them
TotalPaid(body) == IF IsSome(body.payments) THEN SumAmounts(body.payments[1]) ELSE 0

\* SalesPage.handlePayment: the page sends the request only for a non-empty
\* cart whose payments reach the total
handlePayment(body, total) ==
    /\ IsSome(body.items) /\ Len(body.items[1]) > 0
    /\ ~(TotalPaid(body) < total)

SalePaymentStatusCompared(q) ==
    IF TotalPaid(q.body) < q.total THEN "partial" ELSE "paid"

\* paymentStatus: 'paid' in the values of the insert
SalePaymentStatus(q) == "paid"

InsertSale(r) ==
    LET q == req[r] IN
    /\ q.kind = "sale" /\ q.pc = "insert_sale"
    /\ IF \/ (q.body.customerId # NULL /\ q.body.customerId \notin DOMAIN customers)
          \/ InvoiceNumberTaken(q.invoiceNumber)
         THEN \* foreign key / unique(invoice_number) violation: catch, 500
              /\ req' = [req EXCEPT ![r] = Respond(q, 500)]
              /\ UNCHANGED sales
         ELSE /\ sales' = Append(sales,
                    [invoiceNumber |-> q.invoiceNumber,
                     customerId |-> q.body.customerId,
                     userId |-> q.user,
                     subtotal |-> q.subtotal,
                     discount |-> NumberOr0(q.body.discount),
                     tax |-> NumberOr0(q.body.tax),
                     total |-> q.total,
                     profit |-> q.totalProfit,
                     status |-> "completed",
                     paymentStatus |-> SalePaymentStatus(q)])
              /\ req' = [req EXCEPT ![r] =
                    AfterItem([q EXCEPT !.rowId = Len(sales) + 1, !.i = 0])]
    /\ UNCHANGED <<now, otherT, users, products, serialNumbers, customers, saleItems, payments,
                 purchaseT, quoteT, rmas>>

InsertSaleItem(r) ==
    LET q == req[r]
        item == q.body.items[1][q.i] IN
    /\ q.kind = "sale" /\ q.pc = "insert_item"
    /\ IF item.productId \notin DOMAIN products
         THEN \* foreign key violation on sale_items.product_id
              /\ req' = [req EXCEPT ![r] = Respond(q, 500)]
              /\ UNCHANGED saleItems
         ELSE /\ saleItems' = Append(saleItems, SaleItemRow(q.rowId, item))
              /\ req' = [req EXCEPT ![r].pc = "update_stock"]
    /\ UNCHANGED <<now, otherT, users, products, serialNumbers, customers, sales, payments,
                 purchaseT, quoteT, rmas>>

UpdateSaleStock(r) ==
    LET q == req[r]
        item == q.body.items[1][q.i] IN
    /\ q.kind = "sale" /\ q.pc = "update_stock"
    /\ products' = [products EXCEPT ![item.productId].stock =
                        StockAfterSale(@, item.quantity)]
    /\ req' = [req EXCEPT ![r] =
                 IF item.serialNumber # NULL THEN [q EXCEPT !.pc = "update_serial"]
                 ELSE AfterItem(q)]
    /\ UNCHANGED <<now, otherT, users, serialNumbers, customers, saleT, purchaseT, quoteT, rmas>>

\* the row written by the sale into serial_numbers
SoldSerial(row, saleId, customerId) ==
    [row EXCEPT !.status = "sold", !.saleId = saleId, !.customerId = customerId]

UpdateSaleSerial(r) ==
    LET q == req[r]
        item == q.body.items[1][q.i] IN
    /\ q.kind = "sale" /\ q.pc = "update_serial"
    /\ serialNumbers' =
         [s \in DOMAIN serialNumbers |->
            IF s = item.serialNumber
              THEN SoldSerial(serialNumbers[s], q.rowId, q.body.customerId)
              ELSE serialNumbers[s]]
    /\ req' = [req EXCEPT ![r] = AfterItem(q)]
    /\ UNCHANGED <<now, otherT, users, products, customers, saleT, purchaseT, quoteT, rmas>>

InsertPayment(r) ==
    LET q == req[r]
        payment == q.body.payments[1][q.j] IN
    /\ q.kind = "sale" /\ q.pc = "insert_payment"
    /\ payments' = Append(payments,
            [saleId |-> q.rowId, method |-> payment.method, amount |-> payment.amount])
    /\ req' = [req EXCEPT ![r] = AfterPayment(q)]
    /\ UNCHANGED <<now, otherT, users, products, serialNumbers, customers, sales, saleItems,
                 purchaseT, quoteT, rmas>>

UpdateCustomerStats(r) ==
    LET q == req[r] IN
    /\ q.kind = "sale" /\ q.pc = "update_customer"
    /\ customers' = [customers EXCEPT
            ![q.body.customerId].totalSpent = @ + q.total,
            ![q.body.customerId].loyaltyPoints = @ + LoyaltyEarned(q.total)]
    /\ req' = [req EXCEPT ![r].pc = "respond"]
    /\ UNCHANGED <<now, otherT, users, products, serialNumbers, saleT, purchaseT, quoteT, rmas>>

\* res.status(201).json(newSale[0])
RespondCreated(r) ==
    /\ req[r].pc = "respond"
    /\ req' = [req EXCEPT ![r] = Respond(req[r], 201)]
    /\ UNCHANGED <<now, tables>>

StatementPcs == {"insert_sale", "insert_item", "update_stock", "update_serial",
                 "insert_payment", "update_customer",
                 "insert_purchase", "insert_purchase_item", "update_purchase_stock",
                 "insert_quotation", "insert_quote_item",
                 "insert_rma", "rma_serial", "select_rma", "update_rma",
                 "update_rma_serial", "select_user", "update_user",
                 "select_purchase", "update_purchase", "update_supplier_balance",
                 "select_supplier", "update_supplier", "update_serial_status",
                 "select_quotation", "select_quote_items", "update_quotation_status",
                 "update_quotation_sent", "select_build", "select_component",
                 "update_build_status", "adjust_stock",
                 "select_customer", "update_loyalty", "select_phone",
                 "insert_customer", "update_customer_row"}

StatementFailsRollsBack(r) ==
    /\ req[r].pc \in StatementPcs
    /\ req' = [req EXCEPT ![r] = Respond(req[r], 500)]
    /\ sales' = IF req[r].kind = "sale" /\ req[r].rowId = Len(sales) /\ sales # <<>>
                 THEN SubSeq(sales, 1, Len(sales) - 1) ELSE sales
    /\ UNCHANGED <<now, otherT, users, products, serialNumbers, customers, saleItems, payments,
                   purchaseT, quoteT, rmas>>

\* an awaited statement rejects (store unreachable): catch block, 500
StatementFails(r) ==
    /\ req[r].pc \in StatementPcs
    /\ req' = [req EXCEPT ![r] = Respond(req[r], 500)]
    /\ UNCHANGED <<now, tables>>

SaleSteps(r) ==
    \/ InsertSale(r)
    \/ InsertSaleItem(r)
    \/ UpdateSaleStock(r)
    \/ UpdateSaleSerial(r)
    \/ InsertPayment(r)
    \/ UpdateCustomerStats(r)

----------------------------------------------------------------------------
(* Purchase creation: router.post('/') of the purchases router *)

PurchaseRoles == {"admin", "manager"}

RECURSIVE PurchaseTotal(_)
PurchaseTotal(items) ==
    IF items = <<>> THEN 0
    ELSE PurchaseTotal(SubSeq(items, 1, Len(items) - 1))
         + items[Len(items)].unitCost * items[Len(items)].quantity

\* for (const item of items): the next item, or the response after the last
AfterPurchaseItem(q) ==
    IF q.i < Len(q.body.items[1])
      THEN [q EXCEPT !.pc = "insert_purchase_item", !.i = q.i + 1]
      ELSE [q EXCEPT !.pc = "respond"]

StartPurchase(r, sessionUsers, bodies) ==
    /\ req[r].pc = "idle"
    /\ \E u \in sessionUsers, b \in bodies :
         LET q == [req[r] EXCEPT !.kind = "purchase", !.user = u, !.body = b] IN
         req' = [req EXCEPT ![r] =
            IF Guard(u, PurchaseRoles) # 0 THEN Respond(q, Guard(u, PurchaseRoles))
            ELSE IF ItemsMissing(b.items) THEN Respond(q, 400)
            ELSE [q EXCEPT !.pc = "insert_purchase",
                           !.total = PurchaseTotal(b.items[1])]]
    /\ UNCHANGED <<now, tables>>

InsertPurchase(r) ==
    LET q == req[r] IN
    /\ q.kind = "purchase" /\ q.pc = "insert_purchase"
    /\ IF q.body.supplierId # NULL /\ q.body.supplierId \notin DOMAIN suppliers
         THEN \* foreign key violation on purchases.supplier_id
              /\ req' = [req EXCEPT ![r] = Respond(q, 500)]
              /\ UNCHANGED purchases
         ELSE /\ purchases' = Append(purchases,
                    [supplierId |-> q.body.supplierId, userId |-> q.user,
                     total |-> q.total, paid |-> 0, balance |-> q.total,
                     status |-> "pending"])
              /\ req' = [req EXCEPT ![r] =
                    AfterPurchaseItem([q EXCEPT !.rowId = Len(purchases) + 1,
                                                !.i = 0])]
    /\ UNCHANGED <<now, otherT, users, products, serialNumbers, customers, saleT,
                   purchaseItems, quoteT, rmas>>

InsertPurchaseItem(r) ==
    LET q == req[r]
        item == q.body.items[1][q.i] IN
    /\ q.kind = "purchase" /\ q.pc = "insert_purchase_item"
    /\ IF item.productId \notin DOMAIN products
         THEN \* foreign key violation on purchase_items.product_id
              /\ req' = [req EXCEPT ![r] = Respond(q, 500)]
              /\ UNCHANGED purchaseItems
         ELSE /\ purchaseItems' = Append(purchaseItems,
                    [purchaseId |-> q.rowId, productId |-> item.productId,
                     quantity |-> item.quantity, unitCost |-> item.unitCost,
                     total |-> item.unitCost * item.quantity])
              /\ req' = [req EXCEPT ![r].pc = "update_purchase_stock"]
    /\ UNCHANGED <<now, otherT, users, products, serialNumbers, customers, saleT,
                   purchases, quoteT, rmas>>

UpdatePurchaseStockAveraged(r) ==
    LET q == req[r]
        item == q.body.items[1][q.i] IN
    /\ q.kind = "purchase" /\ q.pc = "update_purchase_stock"
    /\ products' = [products EXCEPT ![item.productId].stock = @ + item.quantity,
                                    ![item.productId].costPrice =
                                        (@ + item.unitCost) \div 2]
    /\ req' = [req EXCEPT ![r] = AfterPurchaseItem(q)]
    /\ UNCHANGED <<now, otherT, users, serialNumbers, customers, saleT, purchaseT, quoteT, rmas>>

\* update(products).set({ stock: sql`stock + quantity`, costPrice: unitCost })
UpdatePurchaseStock(r) ==
    LET q == req[r]
        item == q.body.items[1][q.i] IN
    /\ q.kind = "purchase" /\ q.pc = "update_purchase_stock"
    /\ products' = [products EXCEPT ![item.productId].stock = @ + item.quantity,
                                    ![item.productId].costPrice = item.unitCost]
    /\ req' = [req EXCEPT ![r] = AfterPurchaseItem(q)]
    /\ UNCHANGED <<now, otherT, users, serialNumbers, customers, saleT, purchaseT, quoteT, rmas>>

PurchaseSteps(r) ==
    \/ InsertPurchase(r)
    \/ InsertPurchaseItem(r)
    \/ UpdatePurchaseStock(r)

----------------------------------------------------------------------------
(* Quotation creation: router.post('/') of the quotations router *)

\* for (const item of items): the next item, or the response after the last
AfterQuoteItem(q) ==
    IF q.i < Len(q.body.items[1])
      THEN [q EXCEPT !.pc = "insert_quote_item", !.i = q.i + 1]
      ELSE [q EXCEPT !.pc = "respond"]

StartQuotation(r, sessionUsers, bodies) ==
    /\ req[r].pc = "idle"
    /\ \E u \in sessionUsers, b \in bodies :
         LET q == [req[r] EXCEPT !.kind = "quotation", !.user = u, !.body = b] IN
         IF Guard(u, AnyRole) # 0
           THEN /\ req' = [req EXCEPT ![r] = Respond(q, Guard(u, AnyRole))]
                /\ UNCHANGED now
         ELSE IF ItemsMissing(b.items)
           THEN /\ req' = [req EXCEPT ![r] = Respond(q, 400)]
                /\ UNCHANGED now
         ELSE \E t \in {now, now + 1} :
                /\ t <= MaxTime
                /\ now' = t
                /\ LET subtotal == SaleSubtotal(b.items[1])
                   IN req' = [req EXCEPT ![r] =
                        [q EXCEPT !.pc = "insert_quotation",
                                  !.subtotal = subtotal,
                                  !.total = SaleTotal(subtotal, NumberOr0(b.discount),
                                                      NumberOr0(b.tax)),
                                  !.invoiceNumber = t]]
    /\ UNCHANGED tables

InsertQuotation(r) ==
    LET q == req[r] IN
    /\ q.kind = "quotation" /\ q.pc = "insert_quotation"
    /\ IF \/ (q.body.customerId # NULL /\ q.body.customerId \notin DOMAIN customers)
          \/ \E k \in 1..Len(quotations) : quotations[k].quoteNumber = q.invoiceNumber
         THEN \* foreign key / unique(quote_number) violation: catch, 500
              /\ req' = [req EXCEPT ![r] = Respond(q, 500)]
              /\ UNCHANGED quotations
         ELSE /\ quotations' = Append(quotations,
                    [quoteNumber |-> q.invoiceNumber,
                     customerId |-> q.body.customerId, userId |-> q.user,
                     subtotal |-> q.subtotal,
                     discount |-> NumberOr0(q.body.discount),
                     tax |-> NumberOr0(q.body.tax),
                     total |-> q.total, status |-> "draft"])
              /\ req' = [req EXCEPT ![r] =
                    AfterQuoteItem([q EXCEPT !.rowId = Len(quotations) + 1, !.i = 0])]
    /\ UNCHANGED <<now, otherT, users, products, serialNumbers, customers, saleT, purchaseT,
                   quoteItems, rmas>>

InsertQuoteItem(r) ==
    LET q == req[r]
        item == q.body.items[1][q.i] IN
    /\ q.kind = "quotation" /\ q.pc = "insert_quote_item"
    /\ IF item.productId \notin DOMAIN products
         THEN \* foreign key violation on quote_items.product_id
              /\ req' = [req EXCEPT ![r] = Respond(q, 500)]
              /\ UNCHANGED quoteItems
         ELSE /\ quoteItems' = Append(quoteItems,
                    [quoteId |-> q.rowId, productId |-> item.productId,
                     quantity |-> item.quantity, unitPrice |-> item.unitPrice,
                     total |-> item.unitPrice * item.quantity])
              /\ req' = [req EXCEPT ![r] = AfterQuoteItem(q)]
    /\ UNCHANGED <<now, otherT, users, products, serialNumbers, customers, saleT, purchaseT,
                   quotations, rmas>>

QuotationSteps(r) ==
    \/ InsertQuotation(r)
    \/ InsertQuoteItem(r)

----------------------------------------------------------------------------
(* RMA creation and update: router.post('/') and router.put('/:id') of the
   RMA router *)

StartRmaCreate(r, sessionUsers, bodies) ==
    /\ req[r].pc = "idle"
    /\ \E u \in sessionUsers, b \in bodies :
         LET q == [req[r] EXCEPT !.kind = "rma_create", !.user = u, !.body = b] IN
         IF Guard(u, AnyRole) # 0
           THEN /\ req' = [req EXCEPT ![r] = Respond(q, Guard(u, AnyRole))]
                /\ UNCHANGED now
         ELSE IF b.customerId = NULL \/ b.productId = NULL \/ ~b.reason
           THEN /\ req' = [req EXCEPT ![r] = Respond(q, 400)]
                /\ UNCHANGED now
         ELSE \E t \in {now, now + 1} :
                /\ t <= MaxTime
                /\ now' = t
                /\ req' = [req EXCEPT ![r] =
                        [q EXCEPT !.pc = "insert_rma", !.invoiceNumber = t]]
    /\ UNCHANGED tables

InsertRma(r) ==
    LET q == req[r] IN
    /\ q.kind = "rma_create" /\ q.pc = "insert_rma"
    /\ IF \/ q.body.customerId \notin DOMAIN customers
          \/ q.body.productId \notin DOMAIN products
          \/ \E k \in 1..Len(rmas) : rmas[k].rmaNumber = q.invoiceNumber
         THEN \* foreign key / unique(rma_number) violation: catch, 500
              /\ req' = [req EXCEPT ![r] = Respond(q, 500)]
              /\ UNCHANGED rmas
         ELSE /\ rmas' = Append(rmas,
                    [rmaNumber |-> q.invoiceNumber, customerId |-> q.body.customerId,
                     productId |-> q.body.productId,
                     serialNumber |-> q.body.serialNumber,
                     status |-> "under_review"])
              /\ req' = [req EXCEPT ![r] =
                    [q EXCEPT !.rowId = Len(rmas) + 1,
                              !.pc = IF q.body.serialNumber # NULL
                                       THEN "rma_serial" ELSE "respond"]]
    /\ UNCHANGED <<now, otherT, users, products, serialNumbers, customers, saleT, purchaseT,
                   quoteT>>

\* .set({ status: 'rma' }) where serialNumber matches
SetSerialStatus(sn, st) ==
    [s \in DOMAIN serialNumbers |->
        IF s = sn THEN [serialNumbers[s] EXCEPT !.status = st] ELSE serialNumbers[s]]

UpdateSerialOnRmaCreate(r) ==
    LET q == req[r] IN
    /\ q.kind = "rma_create" /\ q.pc = "rma_serial"
    /\ serialNumbers' = SetSerialStatus(q.body.serialNumber, "rma")
    /\ req' = [req EXCEPT ![r].pc = "respond"]
    /\ UNCHANGED <<now, otherT, users, products, customers, saleT, purchaseT, quoteT, rmas>>

StartRmaUpdate(r, sessionUsers, bodies) ==
    /\ req[r].pc = "idle"
    /\ \E u \in sessionUsers, b \in bodies :
         LET q == [req[r] EXCEPT !.kind = "rma_update", !.user = u, !.body = b] IN
         req' = [req EXCEPT ![r] =
            IF Guard(u, AnyRole) # 0 THEN Respond(q, Guard(u, AnyRole))
            ELSE [q EXCEPT !.pc = "select_rma"]]
    /\ UNCHANGED <<now, tables>>

\* const rma = await req.db.select().from(rmas).where(eq(rmas.id, id)).limit(1)
SelectRma(r) ==
    LET q == req[r] IN
    /\ q.kind = "rma_update" /\ q.pc = "select_rma"
    /\ req' = [req EXCEPT ![r] =
            IF q.body.id \notin 1..Len(rmas) THEN Respond(q, 404)
            ELSE [q EXCEPT !.row = Some(rmas[q.body.id]), !.pc = "update_rma"]]
    /\ UNCHANGED <<now, tables>>

UpdateRmaTerminalKept(r) ==
    LET q == req[r] IN
    /\ q.kind = "rma_update" /\ q.pc = "update_rma"
    /\ rmas' = [rmas EXCEPT ![q.body.id].status =
                    IF IsSome(q.body.status) /\ @ \notin {"returned", "rejected"}
                      THEN q.body.status[1] ELSE @]
    /\ req' = [req EXCEPT ![r].pc =
            IF q.row[1].serialNumber # NULL THEN "update_rma_serial" ELSE "respond_ok"]
    /\ UNCHANGED <<now, otherT, users, products, serialNumbers, customers, saleT, purchaseT,
                   quoteT>>

\* update(rmas).set({ status, resolution, notes }).where(eq(rmas.id, id))
UpdateRma(r) ==
    LET q == req[r] IN
    /\ q.kind = "rma_update" /\ q.pc = "update_rma"
    /\ rmas' = [rmas EXCEPT ![q.body.id].status =
                    IF IsSome(q.body.status) THEN q.body.status[1] ELSE @]
    /\ req' = [req EXCEPT ![r].pc =
            IF q.row[1].serialNumber # NULL THEN "update_rma_serial" ELSE "respond_ok"]
    /\ UNCHANGED <<now, otherT, users, products, serialNumbers, customers, saleT, purchaseT,
                   quoteT>>

SerialStatusForSwapped(status) ==
    IF status = Some("returned") THEN "sold"
    ELSE IF status = Some("rejected") THEN "available"
    ELSE "rma"

\* let serialStatus = 'rma'; returned -> 'available'; rejected -> 'sold'
SerialStatusFor(status) ==
    IF status = Some("returned") THEN "available"
    ELSE IF status = Some("rejected") THEN "sold"
    ELSE "rma"

UpdateSerialOnRmaUpdate(r) ==
    LET q == req[r] IN
    /\ q.kind = "rma_update" /\ q.pc = "update_rma_serial"
    /\ serialNumbers' = SetSerialStatus(q.row[1].serialNumber,
                                        SerialStatusFor(q.body.status))
    /\ req' = [req EXCEPT ![r].pc = "respond_ok"]
    /\ UNCHANGED <<now, otherT, users, products, customers, saleT, purchaseT, quoteT, rmas>>

\* res.json(updatedRMA[0])
RespondOk(r) ==
    /\ req[r].pc = "respond_ok"
    /\ req' = [req EXCEPT ![r] = Respond(req[r], 200)]
    /\ UNCHANGED <<now, tables>>

RmaSteps(r) ==
    \/ InsertRma(r)
    \/ UpdateSerialOnRmaCreate(r)
    \/ SelectRma(r)
    \/ UpdateRma(r)
    \/ UpdateSerialOnRmaUpdate(r)
    \/ RespondOk(r)

----------------------------------------------------------------------------
(* Purchase update: router.put('/:id') of the purchases router *)

StartPurchaseUpdate(r, sessionUsers, bodies) ==
    /\ req[r].pc = "idle"
    /\ \E u \in sessionUsers, b \in bodies :
         LET q == [req[r] EXCEPT !.kind = "purchase_update", !.user = u, !.body = b] IN
         req' = [req EXCEPT ![r] =
            IF Guard(u, PurchaseRoles) # 0 THEN Respond(q, Guard(u, PurchaseRoles))
            ELSE [q EXCEPT !.pc = "select_purchase"]]
    /\ UNCHANGED <<now, tables>>

\* const purchase = await req.db.select().from(purchases).where(eq(purchases.id, id))
SelectPurchase(r) ==
    LET q == req[r] IN
    /\ q.kind = "purchase_update" /\ q.pc = "select_purchase"
    /\ req' = [req EXCEPT ![r] =
            IF q.body.id \notin 1..Len(purchases) THEN Respond(q, 404)
            ELSE [q EXCEPT !.row = Some(purchases[q.body.id]),
                           !.pc = "update_purchase"]]
    /\ UNCHANGED <<now, tables>>

PaidAmountWhole(q) == q.body.paid[1]

\* const paidAmount = Number(paid) - Number(purchase[0].paid)
PaidAmount(q) == q.body.paid[1] - q.row[1].paid

\* update(purchases).set(updateData): status and paid when defined, balance =
\* total - paid from the selected row; an empty updateData is an error
UpdatePurchase(r) ==
    LET q == req[r]
        id == q.body.id IN
    /\ q.kind = "purchase_update" /\ q.pc = "update_purchase"
    /\ IF ~IsSome(q.body.status) /\ ~IsSome(q.body.paid)
         THEN /\ req' = [req EXCEPT ![r] = Respond(q, 500)]
              /\ UNCHANGED purchases
         ELSE /\ purchases' = [purchases EXCEPT
                    ![id].status = IF IsSome(q.body.status) THEN q.body.status[1] ELSE @,
                    ![id].paid = IF IsSome(q.body.paid) THEN q.body.paid[1] ELSE @,
                    ![id].balance = IF IsSome(q.body.paid)
                                      THEN q.row[1].total - q.body.paid[1] ELSE @]
              /\ req' = [req EXCEPT ![r].pc =
                    IF IsSome(q.body.paid) /\ PaidAmount(q) # 0
                      THEN "update_supplier_balance" ELSE "respond_ok"]
    /\ UNCHANGED <<now, otherT, users, products, serialNumbers, customers, saleT,
                   purchaseItems, quoteT, rmas>>

\* balance: sql`${suppliers.balance} - ${paidAmount}` where id = supplierId
UpdateSupplierBalance(r) ==
    LET q == req[r]
        sup == q.row[1].supplierId IN
    /\ q.kind = "purchase_update" /\ q.pc = "update_supplier_balance"
    /\ suppliers' = [s \in DOMAIN suppliers |->
            IF s = sup THEN [suppliers[s] EXCEPT !.balance = @ - PaidAmount(q)]
            ELSE suppliers[s]]
    /\ req' = [req EXCEPT ![r].pc = "respond_ok"]
    /\ UNCHANGED <<now, users, products, serialNumbers, customers, saleT, purchaseT,
                   quoteT, rmas, sessions, pcBuilds>>

PurchaseUpdateSteps(r) ==
    \/ SelectPurchase(r)
    \/ UpdatePurchase(r)
    \/ UpdateSupplierBalance(r)

----------------------------------------------------------------------------
(* Supplier payment: router.post('/:id/payment') of the suppliers router *)

SupplierRoles == {"admin", "manager"}

\* !amount || amount <= 0
AmountInvalid(amount) == ~IsSome(amount) \/ amount[1] = 0 \/ amount[1] <= 0

StartSupplierPayment(r, sessionUsers, bodies) ==
    /\ req[r].pc = "idle"
    /\ \E u \in sessionUsers, b \in bodies :
         LET q == [req[r] EXCEPT !.kind = "supplier_payment", !.user = u,
                                 !.body = b] IN
         req' = [req EXCEPT ![r] =
            IF Guard(u, SupplierRoles) # 0 THEN Respond(q, Guard(u, SupplierRoles))
            ELSE IF AmountInvalid(b.amount) THEN Respond(q, 400)
            ELSE [q EXCEPT !.pc = "select_supplier"]]
    /\ UNCHANGED <<now, tables>>

PaymentExceedsNever(paymentAmount, currentBalance) == FALSE

\* if (paymentAmount > currentBalance)
PaymentExceeds(paymentAmount, currentBalance) == paymentAmount > currentBalance

\* the select of the supplier, the balance test, and newBalance = currentBalance
\* - paymentAmount (kept in total)
SelectSupplier(r) ==
    LET q == req[r]
        id == q.body.id IN
    /\ q.kind = "supplier_payment" /\ q.pc = "select_supplier"
    /\ req' = [req EXCEPT ![r] =
            IF id \notin DOMAIN suppliers THEN Respond(q, 404)
            ELSE IF PaymentExceeds(q.body.amount[1], suppliers[id].balance)
              THEN Respond(q, 400)
            ELSE [q EXCEPT !.row = Some(suppliers[id]),
                           !.total = suppliers[id].balance - q.body.amount[1],
                           !.pc = "update_supplier"]]
    /\ UNCHANGED <<now, tables>>

\* update(suppliers).set({ balance: newBalance.toString() }) and res.json(...)
UpdateSupplierPayment(r) ==
    LET q == req[r] IN
    /\ q.kind = "supplier_payment" /\ q.pc = "update_supplier"
    /\ suppliers' = [suppliers EXCEPT ![q.body.id].balance = q.total]
    /\ req' = [req EXCEPT ![r] = Respond(q, 200)]
    /\ UNCHANGED <<now, users, products, serialNumbers, customers, saleT, purchaseT,
                   quoteT, rmas, sessions, pcBuilds>>

SupplierPaymentSteps(r) ==
    \/ SelectSupplier(r)
    \/ UpdateSupplierPayment(r)

----------------------------------------------------------------------------
(* Serial number status update: router.put('/serials/:id') of the inventory
   router *)

InventoryRoles == {"admin", "manager"}

StartSerialUpdate(r, sessionUsers, bodies) ==
    /\ req[r].pc = "idle"
    /\ \E u \in sessionUsers, b \in bodies :
         LET q == [req[r] EXCEPT !.kind = "serial_update", !.user = u, !.body = b] IN
         req' = [req EXCEPT ![r] =
            IF Guard(u, InventoryRoles) # 0 THEN Respond(q, Guard(u, InventoryRoles))
            ELSE [q EXCEPT !.pc = "update_serial_status"]]
    /\ UNCHANGED <<now, tables>>

\* update(serialNumbers).set({ status, customerId: customerId || null,
\* saleId: saleId || null }).where(eq(serialNumbers.id, id)); 404 when no row
\* is returned; an undefined status is left as it is
UpdateSerialStatus(r) ==
    LET q == req[r]
        id == q.body.id IN
    /\ q.kind = "serial_update" /\ q.pc = "update_serial_status"
    /\ IF id \notin DOMAIN serialNumbers
         THEN /\ req' = [req EXCEPT ![r] = Respond(q, 404)]
              /\ UNCHANGED serialNumbers
         ELSE /\ serialNumbers' = [serialNumbers EXCEPT
                    ![id].status = IF IsSome(q.body.status) THEN q.body.status[1] ELSE @,
                    ![id].customerId = q.body.customerId,
                    ![id].saleId = q.body.saleId]
              /\ req' = [req EXCEPT ![r] = Respond(q, 200)]
    /\ UNCHANGED <<now, otherT, users, products, customers, saleT, purchaseT, quoteT,
                   rmas>>

----------------------------------------------------------------------------
(* Quotation conversion and sending: router.post('/:id/convert-to-sale') and
   router.post('/:id/send') of the quotations router *)

StartQuoteConvert(r, sessionUsers, bodies) ==
    /\ req[r].pc = "idle"
    /\ \E u \in sessionUsers, b \in bodies :
         LET q == [req[r] EXCEPT !.kind = "quote_convert", !.user = u, !.body = b] IN
         req' = [req EXCEPT ![r] =
            IF Guard(u, AnyRole) # 0 THEN Respond(q, Guard(u, AnyRole))
            ELSE [q EXCEPT !.pc = "select_quotation"]]
    /\ UNCHANGED <<now, tables>>

\* const quotation = await req.db.select().from(quotations).where(eq(quotations.id, id))
SelectQuotation(r) ==
    LET q == req[r] IN
    /\ q.kind = "quote_convert" /\ q.pc = "select_quotation"
    /\ req' = [req EXCEPT ![r] =
            IF q.body.id \notin 1..Len(quotations) THEN Respond(q, 404)
            ELSE [q EXCEPT !.row = Some(quotations[q.body.id]),
                           !.pc = "select_quote_items"]]
    /\ UNCHANGED <<now, tables>>

\* the quote items of quotation id left-joined with products, mapped to sale
\* items: costPrice is Number(item.product?.costPrice || 0)
QuoteSaleItems(id) ==
    LET rows == SelectSeq(quoteItems, LAMBDA x : x.quoteId = id) IN
    [k \in 1..Len(rows) |->
        [productId |-> rows[k].productId, quantity |-> rows[k].quantity,
         unitPrice |-> rows[k].unitPrice,
         costPrice |-> IF rows[k].productId \in DOMAIN products
                         THEN products[rows[k].productId].costPrice ELSE 0]]

\* the select of the quote items and the saleData object
SelectQuoteItems(r) ==
    LET q == req[r] IN
    /\ q.kind = "quote_convert" /\ q.pc = "select_quote_items"
    /\ req' = [req EXCEPT ![r] =
            [q EXCEPT !.pc = "update_quotation_status",
                      !.payload = Some([customerId |-> q.row[1].customerId,
                                        items |-> QuoteSaleItems(q.body.id),
                                        discount |-> q.row[1].discount,
                                        tax |-> q.row[1].tax,
                                        payments |-> q.body.payments])]]
    /\ UNCHANGED <<now, tables>>

UpdateQuotationConvertedCreatesSale(r) ==
    LET q == req[r] IN
    /\ q.kind = "quote_convert" /\ q.pc = "update_quotation_status"
    /\ quotations' = [k \in 1..Len(quotations) |->
            IF k = q.body.id THEN [quotations[k] EXCEPT !.status = "converted"]
            ELSE quotations[k]]
    /\ sales' = Append(sales, q.payload[1])
    /\ req' = [req EXCEPT ![r] = Respond(q, 200)]
    /\ UNCHANGED <<now, otherT, users, products, serialNumbers, customers, saleItems,
                   payments, purchaseT, quoteItems, rmas>>

\* update(quotations).set({ status: 'converted' }).where(eq(quotations.id, id))
\* and res.json({ message, saleData })
UpdateQuotationConverted(r) ==
    LET q == req[r] IN
    /\ q.kind = "quote_convert" /\ q.pc = "update_quotation_status"
    /\ quotations' = [k \in 1..Len(quotations) |->
            IF k = q.body.id THEN [quotations[k] EXCEPT !.status = "converted"]
            ELSE quotations[k]]
    /\ req' = [req EXCEPT ![r] = Respond(q, 200)]
    /\ UNCHANGED <<now, otherT, users, products, serialNumbers, customers, saleT,
                   purchaseT, quoteItems, rmas>>

StartQuoteSend(r, sessionUsers, bodies) ==
    /\ req[r].pc = "idle"
    /\ \E u \in sessionUsers, b \in bodies :
         LET q == [req[r] EXCEPT !.kind = "quote_send", !.user = u, !.body = b] IN
         req' = [req EXCEPT ![r] =
            IF Guard(u, AnyRole) # 0 THEN Respond(q, Guard(u, AnyRole))
            ELSE [q EXCEPT !.pc = "update_quotation_sent"]]
    /\ UNCHANGED <<now, tables>>

\* update(quotations).set({ status: 'sent' }).where(eq(quotations.id, id)) and
\* res.json({ message }): the number of rows matched is not looked at
UpdateQuotationSent(r) ==
    LET q == req[r] IN
    /\ q.kind = "quote_send" /\ q.pc = "update_quotation_sent"
    /\ quotations' = [k \in 1..Len(quotations) |->
            IF k = q.body.id THEN [quotations[k] EXCEPT !.status = "sent"]
            ELSE quotations[k]]
    /\ req' = [req EXCEPT ![r] = Respond(q, 200)]
    /\ UNCHANGED <<now, otherT, users, products, serialNumbers, customers, saleT,
                   purchaseT, quoteItems, rmas>>

QuoteConvertSteps(r) ==
    \/ SelectQuotation(r)
    \/ SelectQuoteItems(r)
    \/ UpdateQuotationConverted(r)
    \/ UpdateQuotationSent(r)

----------------------------------------------------------------------------
(* PC build conversion: router.post('/:id/convert-to-sale') of the PC builder
   router *)

StartBuildConvert(r, sessionUsers, bodies) ==
    /\ req[r].pc = "idle"
    /\ \E u \in sessionUsers, b \in bodies :
         LET q == [req[r] EXCEPT !.kind = "build_convert", !.user = u, !.body = b] IN
         req' = [req EXCEPT ![r] =
            IF Guard(u, AnyRole) # 0 THEN Respond(q, Guard(u, AnyRole))
            ELSE [q EXCEPT !.pc = "select_build"]]
    /\ UNCHANGED <<now, tables>>

\* for (const component of components): the next component, or the status
\* statement after the last
AfterComponent(q) ==
    IF q.i < Len(q.row[1].components)
      THEN [q EXCEPT !.pc = "select_component", !.i = q.i + 1]
      ELSE [q EXCEPT !.pc = "update_build_status"]

\* the select of the build; saleItems = [] and the fields of saleData that do
\* not depend on the components
SelectBuild(r) ==
    LET q == req[r] IN
    /\ q.kind = "build_convert" /\ q.pc = "select_build"
    /\ req' = [req EXCEPT ![r] =
            IF q.body.id \notin 1..Len(pcBuilds) THEN Respond(q, 404)
            ELSE AfterComponent(
                   [q EXCEPT !.row = Some(pcBuilds[q.body.id]), !.i = 0,
                             !.payload = Some([customerId |-> pcBuilds[q.body.id].customerId,
                                               items |-> <<>>,
                                               discount |-> NumberOr0(q.body.discount),
                                               tax |-> NumberOr0(q.body.tax),
                                               payments |-> q.body.payments])])]
    /\ UNCHANGED <<now, tables>>

\* the select of the component's product; saleItems.push(...) when it exists
SelectComponent(r) ==
    LET q == req[r]
        component == q.row[1].components[q.i]
        pid == component.productId IN
    /\ q.kind = "build_convert" /\ q.pc = "select_component"
    /\ req' = [req EXCEPT ![r] =
            AfterComponent(
              IF pid \in DOMAIN products
                THEN [q EXCEPT !.payload[1].items = Append(@,
                        [productId |-> pid, quantity |-> component.quantity,
                         unitPrice |-> products[pid].sellingPrice,
                         costPrice |-> products[pid].costPrice])]
                ELSE q)]
    /\ UNCHANGED <<now, tables>>

\* update(pcBuilds).set({ status: 'purchased' }).where(eq(pcBuilds.id, id)) and
\* res.json({ message, saleData })
UpdateBuildPurchased(r) ==
    LET q == req[r] IN
    /\ q.kind = "build_convert" /\ q.pc = "update_build_status"
    /\ pcBuilds' = [k \in 1..Len(pcBuilds) |->
            IF k = q.body.id THEN [pcBuilds[k] EXCEPT !.status = "purchased"]
            ELSE pcBuilds[k]]
    /\ req' = [req EXCEPT ![r] = Respond(q, 200)]
    /\ UNCHANGED <<now, users, products, serialNumbers, customers, saleT, purchaseT,
                   quoteT, rmas, sessions, suppliers>>

BuildConvertSteps(r) ==
    \/ SelectBuild(r)
    \/ SelectComponent(r)
    \/ UpdateBuildPurchased(r)

-----------------------------------------------------------------------------
(* The RMA page of the client: the details dialog and its status buttons.
   A request slot is a browser: it holds the details the dialog shows and
   then the update request a button sends. *)

\* View: setSelectedRMA(rma) enables the rma-details query, GET /api/rma/:id
OpenRmaDetails(r, sessionUsers) ==
    /\ req[r].pc = "idle"
    /\ \E u \in sessionUsers, id \in 1..Len(rmas) :
         req' = [req EXCEPT ![r] =
            [IdleReq EXCEPT !.kind = "rma_page", !.pc = "details", !.user = u,
                            !.rowId = id, !.row = Some(rmas[id])]]
    /\ UNCHANGED <<now, tables>>

\* the buttons rendered for rmaDetails.status
StatusButtons(status) ==
    IF status = "under_review" THEN {"approved", "rejected"}
    ELSE IF status = "approved" THEN {"repaired"}
    ELSE IF status = "repaired" THEN {"returned"}
    ELSE {}

\* onClick: updateRMAMutation.mutate({ id: rmaDetails.id, status, notes }),
\* PUT /api/rma/:id
ClickStatusButton(r) ==
    LET q == req[r] IN
    /\ q.kind = "rma_page" /\ q.pc = "details"
    /\ \E st \in StatusButtons(q.row[1].status) :
         LET u == [q EXCEPT !.kind = "rma_update",
                            !.body = [id |-> q.rowId, status |-> Some(st)]] IN
         req' = [req EXCEPT ![r] =
            IF Guard(q.user, AnyRole) # 0 THEN Respond(u, Guard(q.user, AnyRole))
            ELSE [u EXCEPT !.pc = "select_rma"]]
    /\ UNCHANGED <<now, tables>>

\* onOpenChange: setSelectedRMA(null)
CloseRmaDetails(r) ==
    /\ req[r].kind = "rma_page" /\ req[r].pc = "details"
    /\ req' = [req EXCEPT ![r] = IdleReq]
    /\ UNCHANGED <<now, tables>>

-----------------------------------------------------------------------------
(* Stock adjustment: router.post('/adjust-stock') of the inventory router *)

StartAdjustStock(r, sessionUsers, bodies) ==
    /\ req[r].pc = "idle"
    /\ \E u \in sessionUsers, b \in bodies :
         LET q == [req[r] EXCEPT !.kind = "adjust_stock", !.user = u, !.body = b] IN
         req' = [req EXCEPT ![r] =
            IF Guard(u, InventoryRoles) # 0 THEN Respond(q, Guard(u, InventoryRoles))
            ELSE [q EXCEPT !.pc = "adjust_stock"]]
    /\ UNCHANGED <<now, tables>>

AdjustedStockSet(stock, adjustment) == adjustment

\* stock: sql`${products.stock} + ${adjustment}`
AdjustedStock(stock, adjustment) == stock + adjustment

\* update(products).set({ stock }).where(eq(products.id, productId)): no row
\* matches an unknown id, and the answer is the same
AdjustStock(r) ==
    LET q == req[r] IN
    /\ q.kind = "adjust_stock" /\ q.pc = "adjust_stock"
    /\ products' = [p \in DOMAIN products |->
            IF p = q.body.productId
              THEN [products[p] EXCEPT !.stock = AdjustedStock(@, q.body.adjustment)]
              ELSE products[p]]
    /\ req' = [req EXCEPT ![r].pc = "respond_ok"]
    /\ UNCHANGED <<now, otherT, users, serialNumbers, customers, saleT, purchaseT, quoteT,
                   rmas>>

-----------------------------------------------------------------------------
(* Loyalty points: router.post('/:id/loyalty') of the customers router *)

StartLoyalty(r, sessionUsers, bodies) ==
    /\ req[r].pc = "idle"
    /\ \E u \in sessionUsers, b \in bodies :
         LET q == [req[r] EXCEPT !.kind = "loyalty", !.user = u, !.body = b] IN
         req' = [req EXCEPT ![r] =
            IF Guard(u, AnyRole) # 0 THEN Respond(q, Guard(u, AnyRole))
            ELSE [q EXCEPT !.pc = "select_customer"]]
    /\ UNCHANGED <<now, tables>>

\* let newPoints = currentPoints; 'add' adds, 'redeem' subtracts, any other
\* action leaves it
NewPoints(currentPoints, action, points) ==
    IF action = "add" THEN currentPoints + points
    ELSE IF action = "redeem" THEN currentPoints - points
    ELSE currentPoints

\* const customer = await req.db.select().from(customers).where(eq(customers.id, id));
\* 404 without a row, 400 for a redeem of more than currentPoints; newPoints
\* is kept in the request
SelectCustomer(r) ==
    LET q == req[r]
        id == q.body.id IN
    /\ q.kind = "loyalty" /\ q.pc = "select_customer"
    /\ req' = [req EXCEPT ![r] =
            IF id \notin DOMAIN customers THEN Respond(q, 404)
            ELSE IF q.body.action = "redeem" /\ customers[id].loyaltyPoints < q.body.points
              THEN Respond(q, 400)
            ELSE [q EXCEPT !.row = Some(customers[id]),
                           !.total = NewPoints(customers[id].loyaltyPoints,
                                               q.body.action, q.body.points),
                           !.pc = "update_loyalty"]]
    /\ UNCHANGED <<now, tables>>

\* update(customers).set({ loyaltyPoints: newPoints }).where(eq(customers.id, id))
UpdateLoyalty(r) ==
    LET q == req[r] IN
    /\ q.kind = "loyalty" /\ q.pc = "update_loyalty"
    /\ customers' = [customers EXCEPT ![q.body.id].loyaltyPoints = q.total]
    /\ req' = [req EXCEPT ![r] = Respond(q, 200)]
    /\ UNCHANGED <<now, otherT, users, products, serialNumbers, saleT, purchaseT, quoteT,
                   rmas>>

LoyaltySteps(r) ==
    \/ SelectCustomer(r)
    \/ UpdateLoyalty(r)

-----------------------------------------------------------------------------
(* Customer creation and update: router.post('/') and router.put('/:id') of
   the customers router *)

StartCustomerCreate(r, sessionUsers, bodies) ==
    /\ req[r].pc = "idle"
    /\ \E u \in sessionUsers, b \in bodies :
         LET q == [req[r] EXCEPT !.kind = "customer_create", !.user = u, !.body = b] IN
         req' = [req EXCEPT ![r] =
            IF Guard(u, AnyRole) # 0 THEN Respond(q, Guard(u, AnyRole))
            ELSE IF ~b.name \/ b.phone = NULL THEN Respond(q, 400)
            ELSE [q EXCEPT !.pc = "select_phone"]]
    /\ UNCHANGED <<now, tables>>

PhoneInUseNever(phone, self) == FALSE

\* phone: varchar('phone').unique(): a row other than self holds the phone
PhoneInUse(phone, self) ==
    \E c \in DOMAIN customers \ {self} : customers[c].phone = phone

\* const existingCustomer = await req.db.select().from(customers)
\*     .where(eq(customers.phone, phone)).limit(1)
SelectCustomerByPhone(r) ==
    LET q == req[r] IN
    /\ q.kind = "customer_create" /\ q.pc = "select_phone"
    /\ req' = [req EXCEPT ![r] =
            IF \E c \in DOMAIN customers : customers[c].phone = q.body.phone
              THEN RespondError(q, 400, "Customer with this phone number already exists")
            ELSE [q EXCEPT !.pc = "insert_customer"]]
    /\ UNCHANGED <<now, tables>>

\* insert(customers).values({ name, phone, ... }): the row gets a new id and
\* the defaults of totalSpent and loyaltyPoints
InsertCustomer(r) ==
    LET q == req[r] IN
    /\ q.kind = "customer_create" /\ q.pc = "insert_customer"
    /\ CustomerIds \ DOMAIN customers # {}
    /\ IF PhoneInUse(q.body.phone, NULL)
         THEN \* unique(phone) violation: catch, 500
              /\ req' = [req EXCEPT ![r] = Respond(q, 500)]
              /\ UNCHANGED customers
         ELSE LET id == CHOOSE c \in CustomerIds \ DOMAIN customers : TRUE IN
              /\ customers' = [c \in DOMAIN customers \cup {id} |->
                    IF c = id THEN [totalSpent |-> 0, loyaltyPoints |-> 0,
                                    phone |-> q.body.phone]
                    ELSE customers[c]]
              /\ req' = [req EXCEPT ![r].pc = "respond"]
    /\ UNCHANGED <<now, otherT, users, products, serialNumbers, saleT, purchaseT, quoteT,
                   rmas>>

StartCustomerUpdate(r, sessionUsers, bodies) ==
    /\ req[r].pc = "idle"
    /\ \E u \in sessionUsers, b \in bodies :
         LET q == [req[r] EXCEPT !.kind = "customer_update", !.user = u, !.body = b] IN
         req' = [req EXCEPT ![r] =
            IF Guard(u, AnyRole) # 0 THEN Respond(q, Guard(u, AnyRole))
            ELSE [q EXCEPT !.pc = "update_customer_row"]]
    /\ UNCHANGED <<now, tables>>

\* update(customers).set({ name, phone, ... }).where(eq(customers.id, id));
\* 404 when no row is returned; an undefined phone is left as it is
UpdateCustomer(r) ==
    LET q == req[r]
        id == q.body.id IN
    /\ q.kind = "customer_update" /\ q.pc = "update_customer_row"
    /\ IF id \notin DOMAIN customers
         THEN /\ req' = [req EXCEPT ![r] = Respond(q, 404)]
              /\ UNCHANGED customers
         ELSE IF q.body.phone # NULL /\ PhoneInUse(q.body.phone, id)
         THEN \* unique(phone) violation: catch, 500
              /\ req' = [req EXCEPT ![r] = Respond(q, 500)]
              /\ UNCHANGED customers
         ELSE /\ customers' = [customers EXCEPT ![id].phone =
                    IF q.body.phone # NULL THEN q.body.phone ELSE @]
              /\ req' = [req EXCEPT ![r] = Respond(q, 200)]
    /\ UNCHANGED <<now, otherT, users, products, serialNumbers, saleT, purchaseT, quoteT,
                   rmas>>

CustomerSteps(r) ==
    \/ SelectCustomerByPhone(r)
    \/ InsertCustomer(r)
    \/ UpdateCustomer(r)

----------------------------------------------------------------------------
(* Sessions: passport's LocalStrategy, serializeUser / deserializeUser, and
   the login, logout and user-update routes of the auth router *)

\* bcrypt.hash(password, 10), up to the salt
Hash(password) == <<"bcrypt", password>>

\* bcrypt.compare(password, hash)
ComparePassword(password, hash) == hash = Hash(password)

InvalidCredentials == "Invalid email or password"
AccountDeactivated == "Account is deactivated"

\* the row of a select on users, with its id column
UserRow(u) == [id |-> u] @@ users[u]

\* const { password, ...userWithoutPassword } = user
UserWithoutPassword(row) == [f \in DOMAIN row \ {"password"} |-> row[f]]

\* deserializeUser: done(null, user[0] || null)
DeserializeUser(id) == IF id \in DOMAIN users THEN id ELSE NULL

\* req.user of a request that carries the cookie of session sid
SessionUser(sid) == IF sessions[sid] = NULL THEN NULL ELSE DeserializeUser(sessions[sid])

\* passport.authenticate('local', ...)(req, res, next) runs the strategy
StartLogin(r, sids, bodies) ==
    /\ req[r].pc = "idle"
    /\ \E sid \in sids, b \in bodies :
         req' = [req EXCEPT ![r] =
            [req[r] EXCEPT !.kind = "login", !.sid = sid, !.body = b,
                           !.pc = "select_user"]]
    /\ UNCHANGED <<now, tables>>

\* const user = await db.select().from(users).where(eq(users.email, email))
SelectUserByEmail(r) ==
    LET q == req[r]
        found == {u \in DOMAIN users : users[u].email = q.body.email} IN
    /\ q.kind = "login" /\ q.pc = "select_user"
    /\ req' = [req EXCEPT ![r] =
            IF found = {} THEN RespondError(q, 401, InvalidCredentials)
            ELSE [q EXCEPT !.row = Some(UserRow(CHOOSE u \in found : TRUE)),
                           !.pc = "compare_password"]]
    /\ UNCHANGED <<now, tables>>

\* the strategy after the select: the message of done(null, false, ...), or
\* NULL for done(null, user[0])
VerifyMessage(row, password) ==
    IF ~ComparePassword(password, row.password) THEN InvalidCredentials
    ELSE IF ~row.isActive THEN AccountDeactivated
    ELSE NULL

\* await bcrypt.compare, the isActive test, and the callback of the route:
\* 401 with info.message, or req.logIn and the user without its password
VerifyAndLogIn(r) ==
    LET q == req[r]
        msg == VerifyMessage(q.row[1], q.body.password) IN
    /\ q.kind = "login" /\ q.pc = "compare_password"
    /\ IF msg # NULL
         THEN /\ req' = [req EXCEPT ![r] = RespondError(q, 401, msg)]
              /\ UNCHANGED sessions
         ELSE /\ sessions' = [sessions EXCEPT ![q.sid] = q.row[1].id]
              /\ req' = [req EXCEPT ![r] =
                    [Respond(q, 200) EXCEPT !.user = q.row[1].id,
                        !.payload = Some(UserWithoutPassword(q.row[1]))]]
    /\ UNCHANGED <<now, users, products, serialNumbers, customers, saleT, purchaseT,
                   quoteT, rmas, suppliers, pcBuilds>>

LogoutKeepsSession(r, sids) ==
    /\ req[r].pc = "idle"
    /\ \E sid \in sids :
         /\ req' = [req EXCEPT ![r] =
                [Respond(req[r], 200) EXCEPT !.kind = "logout", !.sid = sid,
                                             !.user = SessionUser(sid)]]
         /\ UNCHANGED sessions
    /\ UNCHANGED <<now, users, products, serialNumbers, customers, saleT, purchaseT,
                   quoteT, rmas, suppliers, pcBuilds>>

\* router.post('/logout'): req.logout(...) removes the user from the session
Logout(r, sids) ==
    /\ req[r].pc = "idle"
    /\ \E sid \in sids :
         /\ req' = [req EXCEPT ![r] =
                [Respond(req[r], 200) EXCEPT !.kind = "logout", !.sid = sid,
                                             !.user = SessionUser(sid)]]
         /\ sessions' = [sessions EXCEPT ![sid] = NULL]
    /\ UNCHANGED <<now, users, products, serialNumbers, customers, saleT, purchaseT,
                   quoteT, rmas, suppliers, pcBuilds>>

\* router.put('/users/:id', requireAuth, requireRole(['admin']), ...)
StartUserUpdate(r, sids, bodies) ==
    /\ req[r].pc = "idle"
    /\ \E sid \in sids, b \in bodies :
         LET u == SessionUser(sid)
             q == [req[r] EXCEPT !.kind = "user_update", !.sid = sid, !.user = u,
                                 !.body = b] IN
         req' = [req EXCEPT ![r] =
            IF Guard(u, {"admin"}) # 0 THEN Respond(q, Guard(u, {"admin"}))
            ELSE [q EXCEPT !.pc = "update_user"]]
    /\ UNCHANGED <<now, tables>>

\* update(users).set({ name, phone, role, isActive }).where(eq(users.id, id));
\* an undefined field is left as it is
UpdateUser(r) ==
    LET q == req[r]
        id == q.body.id IN
    /\ q.kind = "user_update" /\ q.pc = "update_user"
    /\ IF id \notin DOMAIN users
         THEN /\ req' = [req EXCEPT ![r] = Respond(q, 404)]
              /\ UNCHANGED users
         ELSE /\ users' = [users EXCEPT
                    ![id].role = IF IsSome(q.body.role) THEN q.body.role[1] ELSE @,
                    ![id].isActive = IF IsSome(q.body.isActive)
                                       THEN q.body.isActive[1] ELSE @]
              /\ req' = [req EXCEPT ![r] =
                    [Respond(q, 200) EXCEPT
                        !.payload = Some(UserWithoutPassword(
                            [id |-> id] @@ users'[id]))]]
    /\ UNCHANGED <<now, otherT, products, serialNumbers, customers, saleT, purchaseT,
                   quoteT, rmas>>

\* the response has been delivered: the connection serves its next request
Receive(r) ==
    /\ req[r].pc = "done"
    /\ req' = [req EXCEPT ![r] = IdleReq]
    /\ UNCHANGED <<now, tables>>

AuthSteps(r) ==
    \/ SelectUserByEmail(r)
    \/ VerifyAndLogIn(r)
    \/ UpdateUser(r)

----------------------------------------------------------------------------
(* Inputs *)

BoundedSeq(S, n) == UNION {[1..k -> S] : k \in 0..n}

ItemA == [productId |-> "p1", quantity |-> 1, unitPrice |-> 150, costPrice |-> 100,
          serialNumber |-> NULL]
ItemB == [productId |-> "p1", quantity |-> 2, unitPrice |-> 150, costPrice |-> 100,
          serialNumber |-> "SN1"]
ItemC == [productId |-> "p9", quantity |-> 1, unitPrice |-> 150, costPrice |-> 100,
          serialNumber |-> NULL]
Cash150 == [method |-> "cash", amount |-> 150]

SaleBody(c, its, d, t, pays) ==
    [customerId |-> c, items |-> its, discount |-> d, tax |-> t, payments |-> pays]

\* the sale requests of the concurrent specification
ConcSaleBodies ==
    { SaleBody("c1", Some(<<ItemA>>), None, None, None),
      SaleBody(NULL, Some(<<ItemB>>), None, None, Some(<<Cash150>>)),
      SaleBody("c1", Some(<<ItemB, ItemA>>), None, None, Some(<<Cash150>>)),
      SaleBody("c1", Some(<<ItemA, ItemC>>), None, None, None) }

\* the sale requests of the totals specification
TotalsItems == [productId : {"p1"}, quantity : {1, 2}, unitPrice : {150, 80},
                costPrice : {100}, serialNumber : {NULL, "SN1"}]
TotalsBodies ==
    { SaleBody(c, its, d, t, pays) :
        c \in {NULL, "c1"},
        its \in {None} \cup {Some(s) : s \in BoundedSeq(TotalsItems, MaxItems)},
        d \in {None, Some(50)}, t \in {None, Some(15)},
        pays \in {None, Some(<<Cash150>>)} }

\* creation requests with a missing, an empty and a one-item list
PItem == [productId |-> "p1", quantity |-> 2, unitCost |-> 90]
QItem == [productId |-> "p1", quantity |-> 1, unitPrice |-> 150]
ItemLists(item) == {None, Some(<<>>), Some(<<item>>)}
GuardSaleBodies ==
    { SaleBody("c1", its, None, None, Some(<<Cash150>>)) : its \in ItemLists(ItemB) }
GuardPurchaseBodies ==
    { [supplierId |-> NULL, items |-> its] : its \in ItemLists(PItem) }
GuardQuotationBodies ==
    { [customerId |-> "c1", items |-> its, discount |-> None, tax |-> None] :
        its \in ItemLists(QItem) }
Sessions == Users \cup {NULL}

\* RMA requests
RmaCreateBodies ==
    { [customerId |-> c, productId |-> "p1", serialNumber |-> sn, reason |-> TRUE] :
        c \in {NULL, "c1"}, sn \in {NULL, "SN1"} }
RmaUpdateBodies ==
    { [id |-> id, status |-> st] :
        id \in {1, 2, 9},
        st \in {None} \cup {Some(x) : x \in RmaStatuses \cup {"lost"}} }

\* purchases of one supplier for the same product at two unit costs
PItem2 == [productId |-> "p1", quantity |-> 1, unitCost |-> 120]
SupplierPurchaseBodies ==
    { [supplierId |-> "s1", items |-> Some(its)] :
        its \in BoundedSeq({PItem, PItem2}, MaxItems) \ {<<>>} }
PurchaseUpdateBodies ==
    { [id |-> id, status |-> None, paid |-> Some(p)] : id \in {1, 9}, p \in {0, 100} }
      \cup { [id |-> 1, status |-> st, paid |-> None] : st \in {None, Some("received")} }

\* supplier payments
SupplierPaymentBodies ==
    { [id |-> id, amount |-> a] :
        id \in {"s1", "s9"},
        a \in {None} \cup {Some(x) : x \in {-50, 0, 50, 150, 250}} }

\* requests that write the status of serial number SN1
SerialUpdateBodies ==
    { [id |-> id, status |-> st, customerId |-> NULL, saleId |-> 0] :
        id \in {"SN1", "SN9"}, st \in {None, Some("sold"), Some("lost")} }
SerialSaleBodies == { SaleBody("c1", Some(<<ItemB>>), None, None, Some(<<Cash150>>)) }
SerialRmaCreateBodies ==
    { [customerId |-> "c1", productId |-> "p1", serialNumber |-> "SN1",
       reason |-> TRUE] }
SerialRmaUpdateBodies ==
    { [id |-> 1, status |-> Some(x)] : x \in {"approved", "returned", "rejected"} }

\* conversions and sendings of an existing and of an unknown record
ConvertBodies ==
    { [id |-> id, discount |-> None, tax |-> Some(15), payments |-> Some(<<Cash150>>)] :
        id \in {1, 9} }

\* payments on the existing purchase and on the one created meanwhile
PaidUpdateBodies ==
    { [id |-> id, status |-> None, paid |-> Some(p)] : id \in {1, 2}, p \in {0, 100, 180} }
      \cup { [id |-> 1, status |-> Some("received"), paid |-> None] }

\* sales, a purchase and adjustments of product p1; quantities and prices of
\* a sale item are whatever the JSON body carries
StockSaleItems == [productId : {"p1"}, quantity : {1, 0, -1}, unitPrice : {150, -150},
                   costPrice : {100}, serialNumber : {NULL}]
StockSaleBodies ==
    { SaleBody("c1", Some(<<it>>), None, None, None) : it \in StockSaleItems }
      \cup { SaleBody(NULL, Some(<<ItemA, ItemB>>), None, None, Some(<<Cash150>>)) }
StockPurchaseBodies == { [supplierId |-> "s1", items |-> Some(<<PItem, PItem2>>)] }
AdjustBodies ==
    { [productId |-> p, adjustment |-> a] : p \in {"p1", "p9"}, a \in {5, -3} }

\* loyalty requests for customer c1 and for an unknown customer
LoyaltyBodies ==
    { [id |-> id, action |-> a, points |-> p] :
        id \in {"c1", "c9"}, a \in {"add", "redeem", "set"}, p \in {2, 5} }
\* a sale of 300 to customer c1: 3 loyalty points
LoyaltySaleBodies == { SaleBody("c1", Some(<<ItemB>>), None, None, Some(<<Cash150>>)) }

\* customer creations and updates with a phone in use, a new one and none
Phones == {"555", "777"}
CustomerCreateBodies ==
    { [name |-> n, phone |-> ph] : n \in BOOLEAN, ph \in Phones \cup {NULL} }
CustomerUpdateBodies ==
    { [id |-> id, phone |-> ph] : id \in {"c1", "c2", "c9"}, ph \in Phones \cup {NULL} }

\* login and user-update requests
LoginBodies ==
    { [email |-> e, password |-> pw] :
        e \in {"admin", "staff", "nobody"}, pw \in {"pw-admin", "pw-staff"} }
UserUpdateBodies ==
    { [id |-> id, role |-> None, isActive |-> Some(a)] :
        id \in {"staff", "u9"}, a \in BOOLEAN }

----------------------------------------------------------------------------
(* Initial store *)

InitUsers == [u \in Users |-> [email |-> u, password |-> Hash("pw-" \o u),
                               role |-> u, isActive |-> TRUE]]
InitCustomers ==
    [c \in Customers |-> [totalSpent |-> 0, loyaltyPoints |-> 0, phone |-> "555"]]
InitTablesEmpty ==
    /\ sales = <<>> /\ saleItems = <<>> /\ payments = <<>>
    /\ purchases = <<>> /\ purchaseItems = <<>>
    /\ quotations = <<>> /\ quoteItems = <<>>

\* nobody logged in, one supplier that is owed nothing, no PC build
InitOther ==
    /\ sessions = [s \in SessionIds |-> NULL]
    /\ suppliers = [s \in Suppliers |-> [balance |-> 0]]
    /\ pcBuilds = <<>>

\* users, products, serial numbers and customers; no request has arrived
InitBase(stocks) ==
    /\ now = 0
    /\ users = InitUsers
    /\ \E s \in stocks :
         products = [p \in Products |->
                        [stock |-> s, costPrice |-> 100, sellingPrice |-> 150]]
    /\ \E st \in SerialStatuses :
         serialNumbers = [s \in Serials |->
            [productId |-> "p1", status |-> st, saleId |-> 0, customerId |-> NULL]]
    /\ customers = InitCustomers
    /\ req = [r \in Reqs |-> IdleReq]

InitStore(stocks) == InitBase(stocks) /\ InitTablesEmpty

----------------------------------------------------------------------------
(* Specification: concurrent sale requests *)

Init == InitStore({1}) /\ rmas = <<>> /\ InitOther

Next ==
    \E r \in Reqs :
        \/ StartSale(r, {"staff"}, ConcSaleBodies)
        \/ SaleSteps(r)
        \/ RespondCreated(r)
        \/ StatementFails(r)

Spec == Init /\ [][Next]_vars

(* Specification: one sale request, rich amounts *)

InitTotals == InitStore({10}) /\ rmas = <<>> /\ InitOther

NextTotals ==
    \/ StartSale(1, {"staff"}, TotalsBodies)
    \/ SaleSteps(1)
    \/ RespondCreated(1)
    \/ StatementFails(1)

SpecTotals == InitTotals /\ [][NextTotals]_vars

(* Specification: creation requests of every session against the guards *)

InitGuard == InitStore({10}) /\ rmas = <<>> /\ InitOther

NextGuard ==
    \E r \in Reqs :
        \/ StartSale(r, Sessions, GuardSaleBodies)
        \/ StartPurchase(r, Sessions, GuardPurchaseBodies)
        \/ StartQuotation(r, Sessions, GuardQuotationBodies)
        \/ SaleSteps(r)
        \/ PurchaseSteps(r)
        \/ QuotationSteps(r)
        \/ RespondCreated(r)
        \/ StatementFails(r)

SpecGuard == InitGuard /\ [][NextGuard]_vars

(* Specification: RMA requests on a store that holds one RMA linked to a
   serial number and one without *)

InitRma ==
    /\ InitStore({10})
    /\ InitOther
    /\ \E st \in {"under_review", "returned"} :
         rmas = << [rmaNumber |-> -1, customerId |-> "c1", productId |-> "p1",
                    serialNumber |-> "SN1", status |-> st],
                   [rmaNumber |-> -2, customerId |-> "c1", productId |-> "p1",
                    serialNumber |-> NULL, status |-> "under_review"] >>

NextRma ==
    \E r \in Reqs :
        \/ StartRmaCreate(r, {"staff", NULL}, RmaCreateBodies)
        \/ StartRmaUpdate(r, {"staff", NULL}, RmaUpdateBodies)
        \/ RmaSteps(r)
        \/ RespondCreated(r)
        \/ StatementFails(r)

SpecRma == InitRma /\ [][NextRma]_vars

(* Specification: purchases of a supplier and updates of their paid amount *)

InitPurchase == InitStore({10}) /\ rmas = <<>> /\ InitOther

NextPurchase ==
    \E r \in Reqs :
        \/ StartPurchase(r, {"manager"}, SupplierPurchaseBodies)
        \/ StartPurchaseUpdate(r, {"manager", "staff"}, PurchaseUpdateBodies)
        \/ PurchaseSteps(r)
        \/ PurchaseUpdateSteps(r)
        \/ RespondCreated(r)
        \/ RespondOk(r)
        \/ StatementFails(r)

SpecPurchase == InitPurchase /\ [][NextPurchase]_vars

(* Specification: payments to a supplier that is owed 0 or 200, the
   connections serving one request after the other *)

InitPayment ==
    /\ InitStore({10}) /\ rmas = <<>>
    /\ sessions = [s \in SessionIds |-> NULL]
    /\ \E b \in {0, 200} : suppliers = [s \in Suppliers |-> [balance |-> b]]
    /\ pcBuilds = <<>>

NextPayment ==
    \E r \in Reqs :
        \/ StartSupplierPayment(r, Sessions, SupplierPaymentBodies)
        \/ SupplierPaymentSteps(r)
        \/ StatementFails(r)
        \/ Receive(r)

SpecPayment == InitPayment /\ [][NextPayment]_vars

(* Specification: the requests that write a serial number's status *)

NextSerial ==
    \E r \in Reqs :
        \/ StartSale(r, {"manager"}, SerialSaleBodies)
        \/ StartRmaCreate(r, {"manager"}, SerialRmaCreateBodies)
        \/ StartRmaUpdate(r, {"manager"}, SerialRmaUpdateBodies)
        \/ StartSerialUpdate(r, {"manager", "staff"}, SerialUpdateBodies)
        \/ SaleSteps(r)
        \/ RmaSteps(r)
        \/ UpdateSerialStatus(r)
        \/ RespondCreated(r)
        \/ StatementFails(r)

SpecSerial == InitRma /\ [][NextSerial]_vars

(* Specification: conversions of a quotation and of a PC build that may have
   been converted before *)

InitConvert ==
    /\ InitBase({10}) /\ rmas = <<>>
    /\ sales = <<>> /\ saleItems = <<>> /\ payments = <<>>
    /\ purchases = <<>> /\ purchaseItems = <<>>
    /\ sessions = [s \in SessionIds |-> NULL]
    /\ suppliers = [s \in Suppliers |-> [balance |-> 0]]
    /\ \E st \in {"draft", "converted"} :
         quotations = << [quoteNumber |-> -1, customerId |-> "c1", userId |-> "staff",
                          subtotal |-> 150, discount |-> 0, tax |-> 0, total |-> 150,
                          status |-> st] >>
    /\ quoteItems = << [quoteId |-> 1, productId |-> "p1", quantity |-> 1,
                        unitPrice |-> 150, total |-> 150] >>
    /\ \E st \in {"draft", "purchased"} :
         pcBuilds = << [name |-> "build", customerId |-> "c1", userId |-> "staff",
                        components |-> << [productId |-> "p1", quantity |-> 1],
                                          [productId |-> "p9", quantity |-> 1] >>,
                        total |-> 150, status |-> st] >>

NextConvert ==
    \E r \in Reqs :
        \/ StartQuoteConvert(r, {"staff", NULL}, ConvertBodies)
        \/ StartQuoteSend(r, {"staff", NULL}, ConvertBodies)
        \/ StartBuildConvert(r, {"staff", NULL}, ConvertBodies)
        \/ QuoteConvertSteps(r)
        \/ BuildConvertSteps(r)
        \/ StatementFails(r)

SpecConvert == InitConvert /\ [][NextConvert]_vars

(* Specification: RMAs created and driven through the RMA page of two
   browsers *)

PageRmaCreateBodies ==
    { [customerId |-> "c1", productId |-> "p1", serialNumber |-> "SN1",
       reason |-> TRUE] }

InitRmaPage == InitStore({10}) /\ rmas = <<>> /\ InitOther

NextRmaPage ==
    \E r \in Reqs :
        \/ StartRmaCreate(r, {"staff"}, PageRmaCreateBodies)
        \/ OpenRmaDetails(r, {"staff"})
        \/ ClickStatusButton(r)
        \/ CloseRmaDetails(r)
        \/ RmaSteps(r)
        \/ RespondCreated(r)
        \/ Receive(r)

SpecRmaPage == InitRmaPage /\ [][NextRmaPage]_vars

(* Specification: updates of the paid amount of purchases, one update at a
   time, beside a purchase creation *)

\* one purchase of supplier s1, created earlier and unpaid
InitPaid ==
    /\ InitBase({10}) /\ rmas = <<>> /\ InitOther
    /\ sales = <<>> /\ saleItems = <<>> /\ payments = <<>>
    /\ quotations = <<>> /\ quoteItems = <<>>
    /\ purchases = << [supplierId |-> "s1", userId |-> "manager", total |-> 180,
                       paid |-> 0, balance |-> 180, status |-> "pending"] >>
    /\ purchaseItems = << [purchaseId |-> 1, productId |-> "p1", quantity |-> 2,
                           unitCost |-> 90, total |-> 180] >>

\* no purchase update is between its first and its last statement
NoUpdateInFlight ==
    \A r \in Reqs : req[r].kind = "purchase_update" => req[r].pc = "done"

NextPaid ==
    \E r \in Reqs :
        \/ StartPurchase(r, {"manager"}, {[supplierId |-> "s1", items |-> Some(<<PItem2>>)]})
        \/ NoUpdateInFlight /\ StartPurchaseUpdate(r, {"manager"}, PaidUpdateBodies)
        \/ PurchaseSteps(r)
        \/ PurchaseUpdateSteps(r)
        \/ RespondCreated(r)
        \/ RespondOk(r)
        \/ StatementFails(r)

SpecPaid == InitPaid /\ [][NextPaid]_vars

(* Specification: sales, purchases and stock adjustments of one product,
   interleaved *)

InitStock == InitStore({10}) /\ rmas = <<>> /\ InitOther

NextStock ==
    \E r \in Reqs :
        \/ StartSale(r, {"staff"}, StockSaleBodies)
        \/ StartPurchase(r, {"manager"}, StockPurchaseBodies)
        \/ StartAdjustStock(r, {"manager", "staff"}, AdjustBodies)
        \/ SaleSteps(r)
        \/ PurchaseSteps(r)
        \/ AdjustStock(r)
        \/ RespondCreated(r)
        \/ RespondOk(r)
        \/ StatementFails(r)

SpecStock == InitStock /\ [][NextStock]_vars

(* Specification: loyalty requests and a sale for the same customer,
   interleaved *)

\* customer c1 has 3 loyalty points
InitLoyalty ==
    /\ now = 0 /\ users = InitUsers
    /\ products = [p \in Products |->
                     [stock |-> 10, costPrice |-> 100, sellingPrice |-> 150]]
    /\ serialNumbers = [s \in Serials |->
            [productId |-> "p1", status |-> "available", saleId |-> 0,
             customerId |-> NULL]]
    /\ customers = [c \in Customers |->
                        [totalSpent |-> 0, loyaltyPoints |-> 3, phone |-> "555"]]
    /\ req = [r \in Reqs |-> IdleReq]
    /\ InitTablesEmpty /\ rmas = <<>> /\ InitOther

NextLoyalty ==
    \E r \in Reqs :
        \/ StartLoyalty(r, {"staff", NULL}, LoyaltyBodies)
        \/ StartSale(r, {"staff"}, LoyaltySaleBodies)
        \/ LoyaltySteps(r)
        \/ SaleSteps(r)
        \/ RespondCreated(r)
        \/ StatementFails(r)

SpecLoyalty == InitLoyalty /\ [][NextLoyalty]_vars

(* Specification: customer creations and updates, interleaved *)

InitCustomer == InitStore({10}) /\ rmas = <<>> /\ InitOther

NextCustomer ==
    \E r \in Reqs :
        \/ StartCustomerCreate(r, {"staff", NULL}, CustomerCreateBodies)
        \/ StartCustomerUpdate(r, {"staff"}, CustomerUpdateBodies)
        \/ CustomerSteps(r)
        \/ RespondCreated(r)
        \/ StatementFails(r)
        \/ Receive(r)

SpecCustomer == InitCustomer /\ [][NextCustomer]_vars

(* Specification: logins, logouts and user updates from two browsers *)

InitAuth == InitStore({10}) /\ rmas = <<>> /\ InitOther

NextAuth ==
    \E r \in Reqs :
        \/ StartLogin(r, SessionIds, LoginBodies)
        \/ Logout(r, SessionIds)
        \/ StartUserUpdate(r, SessionIds, UserUpdateBodies)
        \/ AuthSteps(r)
        \/ StatementFails(r)
        \/ Receive(r)

SpecAuth == InitAuth /\ [][NextAuth]_vars

----------------------------------------------------------------------------
(* Properties *)

RECURSIVE SumSeq(_)
SumSeq(s) == IF s = <<>> THEN 0 ELSE Head(s) + SumSeq(Tail(s))

IsPrefix(s, t) == Len(s) <= Len(t) /\ SubSeq(t, 1, Len(s)) = s

Created(r, kind) == req[r].kind = kind /\ req[r].status = 201
ItemsOf(r) == req[r].body.items[1]
ItemRowsOf(saleId) == SelectSeq(saleItems, LAMBDA x : x.saleId = saleId)
OptValue(o) == IF o = <<>> THEN 0 ELSE o[1]

\* C1: the sale row of every successful sale creation has subtotal = the sum
\* of unitPrice * quantity over the request's items and total = subtotal -
\* discount + tax, an omitted discount or tax counting as 0.
C1_SubtotalAndTotal ==
    \A r \in Reqs :
        Created(r, "sale") =>
            LET sale == sales[req[r].rowId]
                its == ItemsOf(r)
            IN /\ sale.subtotal =
                    SumSeq([k \in 1..Len(its) |-> its[k].unitPrice * its[k].quantity])
               /\ sale.total = sale.subtotal - OptValue(req[r].body.discount)
                                             + OptValue(req[r].body.tax)

C1_Witness ==
    \E r \in Reqs :
        /\ Created(r, "sale")
        /\ Len(ItemsOf(r)) = 2
        /\ ItemsOf(r)[1].unitPrice # ItemsOf(r)[2].unitPrice
        /\ req[r].body.discount = Some(50) /\ req[r].body.tax = Some(15)
        /\ sales[req[r].rowId].total = sales[req[r].rowId].subtotal - 35

\* C2: the sale row of every successful sale creation has profit = the sum of
\* (unitPrice - costPrice) * quantity over the request's items, which is also
\* the sum of the profit column of that sale's line-item rows; two units at
\* 150 with cost 100 give total 300 and profit 100.
C2_Profit ==
    \A r \in Reqs :
        Created(r, "sale") =>
            LET sale == sales[req[r].rowId]
                its == ItemsOf(r)
                rows == ItemRowsOf(req[r].rowId)
            IN /\ sale.profit =
                    SumSeq([k \in 1..Len(its) |->
                              (its[k].unitPrice - its[k].costPrice) * its[k].quantity])
               /\ sale.profit = SumSeq([k \in 1..Len(rows) |-> rows[k].profit])
               /\ ( /\ Len(its) = 1
                    /\ its[1].quantity = 2 /\ its[1].unitPrice = 150
                    /\ its[1].costPrice = 100
                    /\ req[r].body.discount = None /\ req[r].body.tax = None )
                  => (sale.total = 300 /\ sale.profit = 100)

C2_Witness ==
    \E r \in Reqs :
        /\ Created(r, "sale")
        /\ Len(ItemsOf(r)) = 2
        /\ ItemsOf(r)[1].quantity = 2 /\ ItemsOf(r)[1].unitPrice = 150
        /\ ItemsOf(r)[2].unitPrice = 80
        /\ sales[req[r].rowId].profit = 80
        /\ Len(ItemRowsOf(req[r].rowId)) = 2

\* C3: the stock statement of a sale item subtracts exactly the item quantity
\* from the named product whatever the stock is (no floor at zero), and a sale
\* request is answered 400 only for a missing item list, never for stock.
C3_StockDecrementUnconditional ==
    [][\A r \in Reqs :
          /\ ( /\ req[r].kind = "sale" /\ req[r].pc = "update_stock"
               /\ req'[r].pc # "update_stock" /\ req'[r].status # 500 )
             => LET item == ItemsOf(r)[req[r].i]
                IN /\ products'[item.productId].stock
                        = products[item.productId].stock - item.quantity
                   /\ \A p \in Products \ {item.productId} :
                        products'[p] = products[p]
          /\ (req'[r].kind = "sale" /\ req'[r].status = 400)
             => (req'[r].body.items = None \/ req'[r].body.items = Some(<<>>))
      ]_vars

C3_Witness ==
    \E r \in Reqs :
        /\ Created(r, "sale")
        /\ ItemsOf(r)[1].quantity = 2
        /\ products["p1"].stock < 0

\* C4: a sale, purchase or quotation creation that passes the guards with a
\* missing or empty item list is answered 400, and no step of such a request
\* writes a row: no parent, line-item or payment row, no product, serial
\* number or customer change.
C4_EmptyItemsRejected ==
    [][\A r \in Reqs :
          ( /\ req'[r] # req[r]
            /\ req'[r].kind \in {"sale", "purchase", "quotation"}
            /\ (req'[r].body.items = None \/ req'[r].body.items = Some(<<>>)) )
          => /\ tables' = tables
             /\ req'[r].pc = "done"
             /\ req'[r].rowId = 0
             /\ ( /\ req'[r].user # NULL
                  /\ (req'[r].kind = "purchase"
                        => users[req'[r].user].role \in {"admin", "manager"}) )
                => req'[r].status = 400
      ]_vars

C4_Witness ==
    \E r1, r2 \in Reqs :
        /\ req[r1].kind = "sale" /\ req[r1].status = 400
        /\ req[r1].body.items = Some(<<>>)
        /\ req[r2].kind \in {"purchase", "quotation"} /\ req[r2].status = 400
        /\ req[r2].body.items = None
        /\ sales = <<>> /\ purchases = <<>> /\ quotations = <<>>

\* C5: at the step that completes a sale (201), every existing serial number
\* carried by one of its items has status sold, saleId = that sale and
\* customerId = the sale's customer (null without one).
C5_SerialMatchesSaleAtCompletion ==
    [][\A r \in Reqs :
          (req[r].kind = "sale" /\ req[r].pc = "respond" /\ req'[r].status = 201)
          => \A k \in 1..Len(ItemsOf(r)) :
                LET sn == ItemsOf(r)[k].serialNumber IN
                sn \in DOMAIN serialNumbers
                => /\ serialNumbers'[sn].status = "sold"
                   /\ serialNumbers'[sn].saleId = req[r].rowId
                   /\ serialNumbers'[sn].customerId = req[r].body.customerId
      ]_vars

\* C6: the serial statement of an RMA update with requested status X sets the
\* status of the serial number linked to the RMA to available when X is
\* returned, to sold when X is rejected and to rma for every other X, and
\* leaves every other serial row as it is; no step of an update of an RMA
\* without serial number changes a serial row.
C6_RmaUpdateSetsSerial ==
    [][\A r \in Reqs :
          /\ ( /\ req[r].kind = "rma_update" /\ req[r].pc = "update_rma_serial"
               /\ req'[r].pc = "respond_ok" )
             => LET X == req[r].body.status
                    sn == rmas[req[r].body.id].serialNumber
                IN /\ sn # NULL
                   /\ serialNumbers'[sn].status =
                        CASE X = Some("returned") -> "available"
                          [] X = Some("rejected") -> "sold"
                          [] OTHER -> "rma"
                   /\ \A s \in Serials \ {sn} : serialNumbers'[s] = serialNumbers[s]
          /\ ( /\ req'[r] # req[r] /\ req'[r].kind = "rma_update"
               /\ req'[r].body.id \in 1..Len(rmas)
               /\ rmas[req'[r].body.id].serialNumber = NULL )
             => serialNumbers' = serialNumbers
      ]_vars

C6_Witness ==
    \E r1, r2 \in Reqs :
        /\ req[r1].kind = "rma_update" /\ req[r1].status = 200
        /\ req[r1].body.id = 1 /\ req[r1].body.status = Some("returned")
        /\ rmas[1].serialNumber = "SN1" /\ rmas[1].status = "returned"
        /\ serialNumbers["SN1"].status = "available"
        /\ req[r2].kind = "rma_update" /\ req[r2].status = 200
        /\ req[r2].body.id = 2 /\ rmas[2].serialNumber = NULL

RECURSIVE SumOver(_, _)
SumOver(S, f) ==
    IF S = {} THEN 0
    ELSE LET x == CHOOSE y \in S : TRUE IN f[x] + SumOver(S \ {x}, f)

Quiet == \A r \in Reqs : req[r].pc \in {"idle", "done"}
CompletedSalesOf(c) ==
    {r \in Reqs : Created(r, "sale") /\ req[r].body.customerId = c}

\* C7: when no request is in flight, each customer's totalSpent is the sum
\* of the totals of the completed (201) sales that name the customer, and
\* loyaltyPoints the sum of floor(total / 100) over them, whatever the
\* interleaving of the sale requests was.
C7_CustomerCounters ==
    Quiet =>
        \A c \in Customers :
            LET done == CompletedSalesOf(c)
                tot == [r \in done |-> sales[req[r].rowId].total]
                pts == [r \in done |->
                          (tot[r] - (tot[r] % 100)) \div 100]
            IN /\ customers[c].totalSpent = SumOver(done, tot)
               /\ customers[c].loyaltyPoints = SumOver(done, pts)

C7_Witness ==
    /\ Quiet
    /\ Cardinality(CompletedSalesOf("c1")) = 2
    /\ \A r \in CompletedSalesOf("c1") : sales[req[r].rowId].total = 150
    /\ customers["c1"].totalSpent = 300
    /\ customers["c1"].loyaltyPoints = 2

OneUnitOfP1(r) ==
    /\ req[r].kind = "sale"
    /\ Len(ItemsOf(r)) = 1
    /\ ItemsOf(r)[1].productId = "p1" /\ ItemsOf(r)[1].quantity = 1

\* C8: when the two sale requests, each for one unit of the same product whose
\* stock starts at 1, have both succeeded (201), the stock is -1.
C8_BothSucceedStockMinusOne ==
    (\A r \in Reqs : OneUnitOfP1(r) /\ req[r].status = 201)
        => products["p1"].stock = -1

C8_Witness ==
    /\ \A r \in Reqs : OneUnitOfP1(r) /\ req[r].status = 201
    /\ Len(sales) = 2 /\ Len(saleItems) = 2
    /\ products["p1"].stock = -1

\* C9: a sale request that ends inside a statement after its sale row was
\* inserted is answered 500 by a step that writes nothing, and afterwards the
\* request takes no step while its sale row, the line-item rows and the
\* payment rows written so far stay as they are.
C9_NoRollback ==
    [][\A r \in Reqs :
          (req[r].kind = "sale" /\ req[r].rowId # 0)
          => /\ (req[r].pc \in StatementPcs /\ req'[r].pc = "done")
                => (req'[r].status = 500 /\ tables' = tables)
             /\ req[r].status = 500
                => /\ req'[r] = req[r]
                   /\ req[r].rowId <= Len(sales')
                   /\ sales'[req[r].rowId] = sales[req[r].rowId]
                   /\ IsPrefix(saleItems, saleItems')
                   /\ IsPrefix(payments, payments')
      ]_vars

C9_Witness ==
    \E r \in Reqs :
        /\ req[r].kind = "sale" /\ req[r].status = 500
        /\ req[r].rowId # 0 /\ req[r].i = 2
        /\ Len(ItemRowsOf(req[r].rowId)) = 1
        /\ sales[req[r].rowId].total = req[r].total
        /\ products["p1"].stock < 1
        /\ \A q \in Reqs \ {r} : req[q].pc = "idle"

\* C10: a request without session user is answered 401 and an authenticated
\* request whose role is not in the route's set 403, the 401 also on a route
\* that names roles; the answering step ends the request, writes no row, and
\* the request takes no further step.
C10_Guards ==
    [][\A r \in Reqs :
          /\ (req[r].pc = "idle" /\ req'[r].pc # "idle")
             => LET u == req'[r].user
                    roles == IF req'[r].kind = "purchase"
                               THEN {"admin", "manager"} ELSE Roles
                IN /\ u = NULL
                      => (req'[r].status = 401 /\ req'[r].pc = "done"
                          /\ tables' = tables)
                   /\ (u # NULL /\ users[u].role \notin roles)
                      => (req'[r].status = 403 /\ req'[r].pc = "done"
                          /\ tables' = tables)
                   /\ (u # NULL /\ users[u].role \in roles)
                      => req'[r].status \notin {401, 403}
          /\ req[r].status \in {401, 403}
             => (req'[r] = req[r] /\ req[r].rowId = 0)
      ]_vars

C10_Witness ==
    \E r1, r2 \in Reqs :
        /\ req[r1].kind = "purchase" /\ req[r1].user = NULL /\ req[r1].status = 401
        /\ req[r1].body.items # None /\ req[r1].body.items # Some(<<>>)
        /\ req[r2].kind = "purchase" /\ req[r2].user = "staff" /\ req[r2].status = 403
        /\ purchases = <<>> /\ products["p1"].stock = 10

\* C11: every failed login is answered the same way, with status 401 and the
\* message 'Invalid email or password', whether the email is unknown, the
\* password is wrong or the account is deactivated.
C11_FailedLoginsAlike ==
    \A r \in Reqs :
        (req[r].kind = "login" /\ req[r].pc = "done" /\ req[r].status \notin {200, 500})
        => (req[r].status = 401 /\ req[r].message = InvalidCredentials)

\* the step of request r that ends its login attempt after the password test
LoginVerified(r) ==
    req[r].kind = "login" /\ req[r].pc = "compare_password" /\ req'[r].pc = "done"

LoggedIn(r) == LoginVerified(r) /\ req'[r].status = 200

LoggedOut(r) == req[r].pc = "idle" /\ req'[r].kind = "logout"

\* C12: a login with the right password for an account it read as active
\* answers 200, stores the user in the session of its cookie and returns the
\* user without the password field; a session keeps its user until a logout
\* of that session, a logout leaves the session without user, a session
\* without user gets one only by a successful login, and a guarded request is
\* answered 401 exactly when its session has no user.
C12_SessionLifecycle ==
    [][/\ \A r \in Reqs :
            /\ LoginVerified(r) =>
                  /\ req'[r].status = 200
                        <=> (/\ ComparePassword(req[r].body.password,
                                                req[r].row[1].password)
                             /\ req[r].row[1].isActive)
                  /\ req'[r].status = 200 =>
                        /\ sessions'[req[r].sid] = req[r].row[1].id
                        /\ IsSome(req'[r].payload)
                        /\ "password" \notin DOMAIN req'[r].payload[1]
                        /\ req'[r].payload[1].id = req[r].row[1].id
            /\ LoggedOut(r) => sessions'[req'[r].sid] = NULL
            /\ (req[r].pc = "idle" /\ req'[r].kind = "user_update") =>
                  (req'[r].status = 401 <=> sessions[req'[r].sid] = NULL)
       /\ \A sid \in SessionIds :
            /\ (sessions[sid] = NULL /\ sessions'[sid] # NULL) =>
                  \E r \in Reqs : LoggedIn(r) /\ req[r].sid = sid
            /\ (sessions[sid] # NULL /\ sessions'[sid] # sessions[sid]) =>
                  \E r \in Reqs : \/ LoggedOut(r) /\ req'[r].sid = sid
                                  \/ LoggedIn(r) /\ req[r].sid = sid
      ]_vars

\* a logout of a logged-in session has been answered, and a guarded request
\* of the same session is answered 401 while another session still has its user
C12_Witness ==
    \E r1, r2 \in Reqs :
        /\ req[r1].kind = "logout" /\ req[r1].user # NULL /\ req[r1].status = 200
        /\ req[r2].kind = "user_update" /\ req[r2].sid = req[r1].sid
        /\ req[r2].status = 401
        /\ sessions[req[r1].sid] = NULL
        /\ \E sid \in SessionIds : sessions[sid] # NULL

\* the step of request r that runs the stock statement of its current item
PurchaseStockStep(r) ==
    /\ req[r].kind = "purchase" /\ req[r].pc = "update_purchase_stock"
    /\ req'[r].pc \in {"insert_purchase_item", "respond"}

PurchasedQuantity(p) ==
    SumSeq([k \in 1..Len(purchaseItems) |->
              IF purchaseItems[k].productId = p THEN purchaseItems[k].quantity ELSE 0])

\* every purchase request has been answered 201
AllPurchasesCreated ==
    Quiet /\ \A r \in Reqs : req[r].kind = "purchase" => req[r].status = 201

\* C13: the stock statement of a purchase item adds the item's quantity to the
\* product's stock and sets its costPrice to the item's unitCost; costPrice
\* changes in no other way, so it is the unitCost written last; and once all
\* purchases are answered 201 the stock is the initial stock plus the
\* quantities of all purchase items that name the product.
C13_PurchaseStockAndCost ==
    [][/\ \A r \in Reqs :
            PurchaseStockStep(r) =>
                LET item == req[r].body.items[1][req[r].i] IN
                /\ products'[item.productId].stock
                      = products[item.productId].stock + item.quantity
                /\ products'[item.productId].costPrice = item.unitCost
       /\ \A p \in Products :
            /\ products'[p] # products[p] =>
                  \E r \in Reqs : /\ PurchaseStockStep(r)
                                  /\ req[r].body.items[1][req[r].i].productId = p
            /\ AllPurchasesCreated' =>
                  products'[p].stock = 10 + PurchasedQuantity(p)'
      ]_vars

\* two purchases of the same product, each of two items at both unit costs,
\* have both succeeded, and the cost written last was 90
C13_Witness ==
    /\ Created(1, "purchase") /\ Created(2, "purchase")
    /\ req[1].body.items = Some(<<PItem, PItem2>>)
    /\ req[2].body.items = Some(<<PItem2, PItem>>)
    /\ products["p1"].stock = 16
    /\ products["p1"].costPrice = 90

\* total - paid, summed over the purchases of supplier s
SupplierOwed(s) ==
    SumSeq([k \in 1..Len(purchases) |->
              IF purchases[k].supplierId = s
                THEN purchases[k].total - purchases[k].paid ELSE 0])

\* C14: when no request is in flight, each supplier's balance is the total
\* owed minus the amount paid over its purchases, so that creating a purchase
\* raises the supplier's balance by the purchase total.
C14_SupplierBalanceIsOwed ==
    Quiet => \A s \in Suppliers : suppliers[s].balance = SupplierOwed(s)

\* request r is a supplier payment that has passed the guards
PaymentPastGuard(r) ==
    /\ req'[r].kind = "supplier_payment"
    /\ req'[r].status \notin {401, 403}

\* the step of request r that writes the balance of an accepted payment
PaymentAccepted(r) ==
    /\ req[r].kind = "supplier_payment" /\ req[r].pc = "update_supplier"
    /\ req'[r].status = 200

RmaUpdateStep(r, pc) ==
    /\ req[r].kind = "rma_update" /\ req[r].pc = pc
    /\ req'[r].pc # pc /\ req'[r].status # 500

\* C16: an RMA update that has passed the guard is rejected only by its
\* select, with 404, when the id is unknown, and then no RMA and no serial row
\* changes; for an existing id the select never rejects, whatever the current
\* and the requested status are, and the update statement stores the
\* requested status.
C16_RmaUpdateAnyStatus ==
    [][\A r \in Reqs :
         /\ RmaUpdateStep(r, "select_rma") =>
               IF req[r].body.id \in 1..Len(rmas)
                 THEN req'[r].pc = "update_rma"
                 ELSE /\ req'[r].pc = "done" /\ req'[r].status = 404
                      /\ rmas' = rmas /\ serialNumbers' = serialNumbers
         /\ RmaUpdateStep(r, "update_rma") =>
               /\ req'[r].pc \in {"update_rma_serial", "respond_ok"}
               /\ IsSome(req[r].body.status) =>
                     rmas'[req[r].body.id].status = req[r].body.status[1]
         /\ (req[r].kind = "rma_update" /\ req[r].pc \notin {"idle", "done"}
               /\ req'[r].pc = "done")
              => req'[r].status \in {200, 404, 500}
      ]_vars

\* an update has answered 200 after it moved an RMA out of the terminal
\* status returned, to approved
C16_Witness ==
    \E r \in Reqs :
        /\ req[r].kind = "rma_update" /\ req[r].status = 200
        /\ req[r].row[1].status = "returned"
        /\ req[r].body.status = Some("approved")
        /\ rmas[req[r].body.id].status = "approved"

\* C20: in every reachable state the status of each serial number is one of
\* available, sold, rma.
C20_SerialStatusInSet ==
    \A s \in Serials : serialNumbers[s].status \in SerialStatuses

\* request r, a conversion, takes a step
ConvertStep(r) ==
    req[r].kind \in {"quote_convert", "build_convert"} /\ req'[r] # req[r]

\* row lists a and b are equal up to the status of row id
SameButStatus(a, b, id) ==
    /\ Len(a) = Len(b)
    /\ \A k \in 1..Len(a) :
          IF k = id THEN [a[k] EXCEPT !.status = b[k].status] = b[k] ELSE a[k] = b[k]

\* C17: no step of a conversion of a quotation or a PC build writes a sale,
\* line-item or payment row, a product, a serial number or a customer; the
\* select of an existing record never rejects, whatever the record's status
\* is; the last statement sets the status of the quotation to converted,
\* respectively of the build to purchased, changes nothing else and answers
\* 200 with the sale payload computed from the record.
C17_ConvertOnlySetsStatus ==
    [][\A r \in Reqs :
         ConvertStep(r) =>
           LET q == req[r]
               id == q.body.id IN
           /\ saleT' = saleT /\ products' = products
           /\ serialNumbers' = serialNumbers /\ customers' = customers
           /\ quoteItems' = quoteItems /\ purchaseT' = purchaseT
           /\ (q.pc = "select_quotation" /\ id \in 1..Len(quotations)
                 /\ req'[r].status # 500) => req'[r].pc = "select_quote_items"
           /\ (q.pc = "select_build" /\ id \in 1..Len(pcBuilds)
                 /\ req'[r].status # 500) => req'[r].pc = "select_component"
           /\ IF q.pc = "update_quotation_status" /\ req'[r].status # 500
                THEN /\ quotations'[id].status = "converted"
                     /\ SameButStatus(quotations, quotations', id)
                     /\ req'[r].status = 200
                     /\ req'[r].payload =
                          Some([customerId |-> q.row[1].customerId,
                                items |-> << [productId |-> "p1", quantity |-> 1,
                                              unitPrice |-> 150, costPrice |-> 100] >>,
                                discount |-> 0, tax |-> 0,
                                payments |-> q.body.payments])
                ELSE quotations' = quotations
           /\ IF q.pc = "update_build_status" /\ req'[r].status # 500
                THEN /\ pcBuilds'[id].status = "purchased"
                     /\ SameButStatus(pcBuilds, pcBuilds', id)
                     /\ req'[r].status = 200
                     /\ req'[r].payload =
                          Some([customerId |-> q.row[1].customerId,
                                items |-> << [productId |-> "p1", quantity |-> 1,
                                              unitPrice |-> 150, costPrice |-> 100] >>,
                                discount |-> 0, tax |-> 15,
                                payments |-> q.body.payments])
                ELSE pcBuilds' = pcBuilds
      ]_vars

\* a quotation that was already converted and a PC build that was already
\* purchased have been converted again, and there is still no sale
C17_Witness ==
    \E r1, r2 \in Reqs :
        /\ req[r1].kind = "quote_convert" /\ req[r1].status = 200
        /\ req[r1].row[1].status = "converted"
        /\ req[r2].kind = "build_convert" /\ req[r2].status = 200
        /\ req[r2].row[1].status = "purchased"
        /\ quotations[1].status = "converted" /\ pcBuilds[1].status = "purchased"
        /\ sales = <<>> /\ saleItems = <<>> /\ payments = <<>>

\* the record that request r names by the id in its path does not exist
NamesMissingRecord(r) ==
    \/ req[r].kind \in {"quote_convert", "quote_send"}
         /\ req[r].body.id \notin 1..Len(quotations)
    \/ req[r].kind = "build_convert" /\ req[r].body.id \notin 1..Len(pcBuilds)

\* C19: a request that has passed the guard and names a record that does not
\* exist is answered 404 (a failing store statement aside).
C19_MissingRowIs404 ==
    \A r \in Reqs :
        (req[r].pc = "done" /\ req[r].status \notin {401, 500} /\ NamesMissingRecord(r))
        => req[r].status = 404

\* request r is a sale creation that has generated its invoice number
Generated(r) ==
    req[r].kind = "sale" /\ req[r].pc # "idle" /\ req[r].status \notin {400, 401}

\* no two sale rows share an invoice number, and of two sale creations with
\* the same invoice number at most one has inserted its sale row
UniqueInvoices ==
    /\ \A k, l \in 1..Len(sales) :
          k # l => sales[k].invoiceNumber # sales[l].invoiceNumber
    /\ \A r1, r2 \in Reqs :
          (r1 # r2 /\ Generated(r1) /\ Generated(r2)
             /\ req[r1].invoiceNumber = req[r2].invoiceNumber)
          => ~(req[r1].rowId # 0 /\ req[r2].rowId # 0)

\* C18: a sale creation takes the clock reading of its start as invoice
\* number, so two that start at the same reading hold the same number; the
\* insert of a sale whose number a sale row already holds fails with 500 and
\* writes nothing, and that request writes nothing afterwards; so no two sale
\* rows share an invoice number and of two creations with the same number at
\* most one persists a sale row.
C18_InvoiceCollision ==
    [][/\ \A r \in Reqs :
            /\ (req[r].pc = "idle" /\ Generated(r)') => req'[r].invoiceNumber = now'
            /\ (req[r].kind = "sale" /\ req[r].pc = "insert_sale"
                  /\ req'[r] # req[r]
                  /\ \E k \in 1..Len(sales) :
                        sales[k].invoiceNumber = req[r].invoiceNumber)
                 => /\ req'[r].pc = "done" /\ req'[r].status = 500
                    /\ req'[r].rowId = 0
                    /\ tables' = tables
            /\ (req[r].kind = "sale" /\ req[r].pc = "done") =>
                  req'[r] = req[r]
       /\ UniqueInvoices'
      ]_vars

\* two sale creations hold the same invoice number; one has persisted its
\* sale and answered 201, the other has failed with 500 without a sale row
C18_Witness ==
    \E r1, r2 \in Reqs :
        /\ Generated(r1) /\ Generated(r2) /\ r1 # r2
        /\ req[r1].invoiceNumber = req[r2].invoiceNumber
        /\ req[r1].status = 201 /\ req[r1].rowId = 1
        /\ req[r2].status = 500 /\ req[r2].rowId = 0
        /\ Len(sales) = 1 /\ sales[1].invoiceNumber = req[r2].invoiceNumber

\* the subtotal and the profit of sale id are the sums over its line items
SaleMatchesItems(id) ==
    LET rows == ItemRowsOf(id) IN
    /\ sales[id].subtotal = SumSeq([k \in 1..Len(rows) |-> rows[k].total])
    /\ sales[id].profit = SumSeq([k \in 1..Len(rows) |-> rows[k].profit])

CompletedSalesMatchItems ==
    \A r \in Reqs : Created(r, "sale") => SaleMatchesItems(req[r].rowId)

\* C22: once a sale creation has answered 201, no step of any request changes
\* or removes its sale row or one of its line-item rows, or adds a line item
\* to it; at the answer and in every later state the sale's subtotal is the
\* sum of its line items' totals and its profit the sum of their profits.
C22_SaleImmutable ==
    [][/\ \A r \in Reqs :
            Created(r, "sale") =>
               /\ req[r].rowId <= Len(sales')
               /\ sales'[req[r].rowId] = sales[req[r].rowId]
               /\ ItemRowsOf(req[r].rowId)' = ItemRowsOf(req[r].rowId)
       /\ CompletedSalesMatchItems'
      ]_vars

\* a sale of two line items has been completed, and the other request has
\* written a sale with line items of its own after that
C22_Witness ==
    \E r1, r2 \in Reqs :
        /\ Created(r1, "sale") /\ Created(r2, "sale")
        /\ req[r1].rowId = 1 /\ req[r2].rowId = 2
        /\ Len(ItemRowsOf(1)) = 2 /\ Len(ItemRowsOf(2)) >= 1
        /\ sales[1].subtotal = 450 /\ sales[1].profit = 150

\* the quantities of the first n items of the request in slot 1
QuantityOfFirst(n) == SumSeq([k \in 1..n |-> ItemsOf(1)[k].quantity])

\* the serial statement of item k of the request in slot 1 has run
SerialDone(k) ==
    ItemsOf(1)[k].serialNumber # NULL =>
        /\ serialNumbers[ItemsOf(1)[k].serialNumber].status = "sold"
        /\ serialNumbers[ItemsOf(1)[k].serialNumber].saleId = 1

\* C23: in every state of one sale creation, whatever statement it is at or
\* failed at: anything is written only after the sale row; the line-item rows
\* are those of a prefix of the item list, in list order; stock has been
\* decremented for all of them or for all but the last, and the serial
\* updates of all but the last have run; a payment row exists only when every
\* item has its row, its stock decrement and its serial update; and the
\* customer counters are changed only when all payment rows exist too.
C23_SaleWriteOrder ==
    LET n == Len(saleItems)
        taken == 10 - products["p1"].stock
        paymentsGiven == IF IsSome(req[1].body.payments)
                           THEN Len(req[1].body.payments[1]) ELSE 0
        allItems == /\ n = Len(ItemsOf(1)) /\ taken = QuantityOfFirst(n)
                    /\ \A k \in 1..n : SerialDone(k)
    IN /\ sales = <<>> =>
            /\ saleItems = <<>> /\ payments = <<>> /\ customers = InitCustomers
            /\ products["p1"].stock = 10
            /\ \A s \in Serials : serialNumbers[s].saleId = 0
       /\ sales # <<>> =>
            /\ Len(sales) = 1 /\ n <= Len(ItemsOf(1))
            /\ \A k \in 1..n : saleItems[k] = SaleItemRow(1, ItemsOf(1)[k])
            /\ n = 0 => taken = 0
            /\ n > 0 => /\ taken \in {QuantityOfFirst(n), QuantityOfFirst(n - 1)}
                        /\ \A k \in 1..(n - 1) : SerialDone(k)
            /\ payments # <<>> => allItems
            /\ customers # InitCustomers =>
                    (allItems /\ Len(payments) = paymentsGiven)

\* the second line-item row is written and has no stock decrement yet, the
\* first item's serial update has run, and no payment row exists
C23_Witness ==
    /\ req[1].pc = "update_stock" /\ Len(saleItems) = 2
    /\ ItemsOf(1)[1].serialNumber = "SN1" /\ serialNumbers["SN1"].saleId = 1
    /\ products["p1"].stock = 10 - ItemsOf(1)[1].quantity
    /\ IsSome(req[1].body.payments) /\ payments = <<>>
    /\ req[1].body.customerId = "c1" /\ customers = InitCustomers

\* C30: every sale row, at every moment, has status completed and
\* paymentStatus paid, and a created sale has exactly the payment rows its
\* request carried (none when it carried none), whether or not the sales page
\* would have sent the request.
C30_AlwaysCompletedAndPaid ==
    /\ \A k \in 1..Len(sales) :
          sales[k].status = "completed" /\ sales[k].paymentStatus = "paid"
    /\ Created(1, "sale") =>
          SumSeq([k \in 1..Len(payments) |-> payments[k].amount]) = TotalPaid(req[1].body)

\* a sale created from a request the page would refuse: its one payment of
\* 150 is below the total
C30_Witness ==
    /\ Created(1, "sale")
    /\ Len(payments) = 1 /\ TotalPaid(req[1].body) < sales[1].total
    /\ ~handlePayment(req[1].body, sales[1].total)
    /\ sales[1].paymentStatus = "paid"

LegalRmaTransitions ==
    { <<"under_review", "approved">>, <<"under_review", "rejected">>,
      <<"approved", "repaired">>, <<"repaired", "returned">> }

\* C24: every RMA row is created in status under_review, and with RMAs
\* changed only through the status buttons of the RMA page every change of a
\* row's status is one of under_review -> approved, under_review -> rejected,
\* approved -> repaired, repaired -> returned, so that a returned or rejected
\* RMA stays as it is.
C24_PageFollowsStateMachine ==
    [][/\ Len(rmas') >= Len(rmas)
       /\ \A k \in 1..Len(rmas') :
            IF k > Len(rmas) THEN rmas'[k].status = "under_review"
            ELSE \/ rmas'[k].status = rmas[k].status
                 \/ <<rmas[k].status, rmas'[k].status>> \in LegalRmaTransitions
      ]_vars

\* the user stored in session sid has isActive false
SessionOfInactiveUser(sid) ==
    /\ sessions[sid] # NULL /\ sessions[sid] \in DOMAIN users
    /\ ~users[sessions[sid]].isActive

\* C27: a guarded request that arrives with the cookie of a session whose
\* user has isActive false is answered 401 by the authentication guard, as a
\* request without a logged-in session is.
C27_InactiveSessionRejected ==
    [][\A r \in Reqs :
         (/\ req[r].pc = "idle" /\ req'[r].kind = "user_update"
          /\ SessionOfInactiveUser(req'[r].sid))
         => (req'[r].pc = "done" /\ req'[r].status = 401)
      ]_vars

\* every purchase update of the run so far has been answered, none with 500
UpdatesCompleted ==
    \A r \in Reqs : req[r].kind = "purchase_update" =>
        (req[r].pc = "done" /\ req[r].status # 500)

\* the paid amounts of all purchases (all of supplier s1)
PaidSoFar == SumSeq([k \in 1..Len(purchases) |-> purchases[k].paid])

PurchaseBalanced == \A k \in 1..Len(purchases) :
    purchases[k].balance = purchases[k].total - purchases[k].paid

SubtractedIsPaid == UpdatesCompleted => 0 - suppliers["s1"].balance = PaidSoFar

\* C28: every purchase row, new or updated, has balance = total - paid and a
\* new one has paid 0; the supplier statement of an update subtracts (paid of
\* the request - paid of the row the update read) from the supplier's
\* balance; and when updates do not overlap and none has failed, what has
\* been subtracted from the supplier's balance in all is the paid amount now
\* recorded on the supplier's purchases.
C28_PaidAndSupplierBalance ==
    [][/\ PurchaseBalanced'
       /\ Len(purchases') > Len(purchases) => purchases'[Len(purchases')].paid = 0
       /\ \A r \in Reqs :
            (req[r].pc = "update_supplier_balance" /\ req'[r].pc = "respond_ok") =>
                suppliers'["s1"].balance =
                    suppliers["s1"].balance - (req[r].body.paid[1] - req[r].row[1].paid)
       /\ SubtractedIsPaid'
      ]_vars

\* two updates of purchase 1 in sequence: paid 100, then paid 180
C28_Witness ==
    /\ \A r \in Reqs : /\ req[r].kind = "purchase_update" /\ req[r].status = 200
                        /\ req[r].pc = "done" /\ req[r].body.id = 1
    /\ \E r \in Reqs : req[r].body.paid = Some(100) /\ req[r].row[1].paid = 0
    /\ \E r \in Reqs : req[r].body.paid = Some(180) /\ req[r].row[1].paid = 100
    /\ purchases[1].paid = 180 /\ purchases[1].balance = 0
    /\ suppliers["s1"].balance = -180

\* the quantities of the items of request r whose stock statement has run:
\* those before item i, and item i unless the request is still at the
\* statements before it
StockStepsDone(r, itemPcs) ==
    LET its == req[r].body.items[1]
        n == IF req[r].pc \in itemPcs THEN req[r].i - 1 ELSE req[r].i
    IN SumSeq([k \in 1..n |-> IF its[k].productId = "p1" THEN its[k].quantity ELSE 0])

SoldBy(r) ==
    IF req[r].kind = "sale" /\ req[r].rowId > 0
      THEN StockStepsDone(r, {"insert_item", "update_stock"}) ELSE 0

PurchasedBy(r) ==
    IF req[r].kind = "purchase" /\ req[r].rowId > 0
      THEN StockStepsDone(r, {"insert_purchase_item", "update_purchase_stock"}) ELSE 0

AdjustedBy(r) ==
    IF /\ req[r].kind = "adjust_stock" /\ req[r].body.productId = "p1"
       /\ (req[r].pc = "respond_ok" \/ req[r].status = 200)
      THEN req[r].body.adjustment ELSE 0

\* C25: while no statement has failed, the stock of product p1 is its
\* initial stock minus the quantities of the sale item steps executed, plus
\* the quantities of the purchase item steps executed, plus the adjustments
\* applied, whatever the interleaving of the requests; and each of these
\* steps changes the stock by its own quantity from whatever the stock is.
C25_NoStockChangeLost ==
    (\A r \in Reqs : req[r].status # 500) =>
        products["p1"].stock =
            10 - (SoldBy(1) + SoldBy(2)) + (PurchasedBy(1) + PurchasedBy(2))
               + (AdjustedBy(1) + AdjustedBy(2))

\* a sale and an adjustment, both answered, whose stock statements ran while
\* the other request was in flight
C25_Witness ==
    \E r1, r2 \in Reqs :
        /\ Created(r1, "sale") /\ Len(ItemsOf(r1)) = 2
        /\ req[r2].kind = "adjust_stock" /\ req[r2].status = 200
        /\ req[r2].body = [productId |-> "p1", adjustment |-> 5]
        /\ products["p1"].stock = 12

\* C26: no step of a sale creation raises the stock of a product or lowers
\* a customer's totalSpent or loyaltyPoints, whatever quantities and prices
\* its items carry.
C26_SaleNeverAddsStock ==
    [][\A r \in Reqs :
         (req[r].kind = "sale" /\ req'[r] # req[r]) =>
            /\ \A p \in DOMAIN products : products'[p].stock <= products[p].stock
            /\ \A c \in DOMAIN customers :
                  /\ customers'[c].totalSpent >= customers[c].totalSpent
                  /\ customers'[c].loyaltyPoints >= customers[c].loyaltyPoints
      ]_vars

\* what an answered request has added to the loyalty points of customer c1
PointsOf(r) ==
    IF req[r].kind = "loyalty" /\ req[r].status = 200 /\ req[r].body.id = "c1"
      THEN NewPoints(0, req[r].body.action, req[r].body.points)
    ELSE IF Created(r, "sale") /\ req[r].body.customerId = "c1"
      THEN LoyaltyEarned(req[r].total)
    ELSE 0

NoLoyaltyUpdateLost ==
    (\A r \in Reqs : req[r].pc \in {"idle", "done"} /\ req[r].status # 500) =>
        customers["c1"].loyaltyPoints = 3 + PointsOf(1) + PointsOf(2)

\* C29: a redeem of more points than the customer has is answered 400 and
\* writes nothing; the write of an accepted add or redeem changes
\* loyaltyPoints by exactly the requested points; and once all requests are
\* answered (none with 500) loyaltyPoints is its initial value plus what every
\* accepted loyalty request and every completed sale of the customer added,
\* whatever their interleaving.
C29_NoLoyaltyUpdateLost ==
    [][/\ \A r \in Reqs :
            /\ (/\ req[r].kind = "loyalty" /\ req[r].pc = "select_customer"
                /\ req[r].body.id \in DOMAIN customers
                /\ req[r].body.action = "redeem"
                /\ customers[req[r].body.id].loyaltyPoints < req[r].body.points
                /\ req'[r].pc = "done")
               => (req'[r].status \in {400, 500} /\ customers' = customers)
            /\ (req[r].pc = "update_loyalty" /\ req'[r].status = 200) =>
                  customers'["c1"].loyaltyPoints =
                      NewPoints(customers["c1"].loyaltyPoints, req[r].body.action,
                                req[r].body.points)
       /\ NoLoyaltyUpdateLost'
      ]_vars

UniquePhones ==
    \A c, d \in DOMAIN customers : c # d => customers[c].phone # customers[d].phone

\* C21: no two customer rows have the same phone in any state, whatever the
\* interleaving of creations and updates; and a creation whose select finds
\* its phone in a row is answered 400 and adds no row.
C21_PhonesUnique ==
    [][/\ UniquePhones'
       /\ \A r \in Reqs :
            (/\ req[r].kind = "customer_create" /\ req[r].pc = "select_phone"
             /\ \E c \in DOMAIN customers : customers[c].phone = req[r].body.phone
             /\ req'[r] # req[r] /\ req'[r].status # 500)
            => (req'[r].pc = "done" /\ req'[r].status = 400 /\ customers' = customers)
      ]_vars

\* two creations for the new phone 777 both got past the select; one row has
\* the phone, one request was answered 201 and the other 500
C21_Witness ==
    \E r1, r2 \in Reqs :
        /\ Created(r1, "customer_create") /\ req[r1].body.phone = "777"
        /\ req[r2].kind = "customer_create" /\ req[r2].body.phone = "777"
        /\ req[r2].pc = "done" /\ req[r2].status = 500
        /\ Cardinality({c \in DOMAIN customers : customers[c].phone = "777"}) = 1
====
